---- MODULE Spec2Model ----
(***************************************************************************)
(* Model of the rmcp-sensors tool servers: the unified SensorsServer       *)
(* (src/src/main.rs) and the per-sensor servers (crates under src/crates). *)
(*                                                                         *)
(* One call is served at a time: a tool action takes the raw arguments and *)
(* the answers of the collaborators the handler consults, runs the whole   *)
(* handler and records its outcome; Respond hands the outcome to the       *)
(* transport and makes the server ready for the next call.                 *)
(***************************************************************************)
EXTENDS Integers, Sequences, FiniteSets, TLC

VARIABLES
    call,       \* the call being served: [server, name, args]
    env,        \* the collaborators' answers consulted by that call
    outcome,    \* the ToolOutcome of that call
    invoked,    \* whether the tool body was run for that call
    registry,   \* the tool_router field of each server: its descriptors
    listed,     \* the answer to a pending listTools request
    served,     \* whether a call has been served since startup
    process,    \* a server binary: main's position, its service and its transport
    runtime     \* the async runtime: its worker threads and the calls in flight

\* the variables outside the in-process call interface
process_vars == <<process, runtime>>

vars == <<call, env, outcome, invoked, registry, listed, served, process, runtime>>

----------------------------------------------------------------------------
(* Bounds of the model                                                     *)

MaxDaysReq == 5         \* largest small `days` value requested
MaxWeatherDays == 3     \* days contained in a weather response
MaxHourly == 8          \* hourly records per day of a response
MaxEntries == 2         \* entries of a repository status list
MaxLongList == 7        \* entries of a long status list (more than are shown)
MaxDisks == 1           \* mounted filesystems
MaxSpace == 3           \* small disk sizes 0..MaxSpace
BigSpace == 250         \* a large disk size
MaxProcs == 2           \* processes of a snapshot
MaxLoad == 1            \* cpu and memory values 0..MaxLoad
MaxCount == 3           \* requested `count` values 0..MaxCount
MaxBack == 3            \* ASCII prefixes of CmdLimit - MaxBack .. CmdLimit bytes
MaxTail == 2            \* ASCII bytes after the wide character
MaxIdle == 2            \* small idle and threshold values 0..MaxIdle
MaxAdapters == 2        \* Bluetooth adapters
MaxPeripherals == 1     \* peripherals an adapter discovers
MaxDisplays == 2        \* connected displays
MaxInterfaces == 2      \* network interfaces
MaxUsbDevices == 2      \* USB devices
MaxBatteries == 2       \* batteries the manager enumerates
MaxCommits == 2         \* items of a revision walk with unreadable items
MaxWalk == 12           \* commits of a long revision walk
MaxExtraProcs == 1      \* processes beyond the listing limit in a large snapshot
MaxHours == 2           \* whole hours in a sampled duration
MaxWorkers == 2         \* worker threads of the runtime
MaxInFlight == 2        \* calls submitted to one runtime
MaxRequests == 3        \* requests a client sends to one process
MaxCpus == 1            \* logical CPUs

----------------------------------------------------------------------------
(* Generic helpers                                                         *)

Min(a, b) == IF a < b THEN a ELSE b
Max(a, b) == IF a > b THEN a ELSE b

\* Iterator::take(n) on a sequence
Take(s, n) == SubSeq(s, 1, Min(n, Len(s)))

\* Iterator::step_by(k): the elements at 0-based indices 0, k, 2k, ...
StepBy(s, k) == [i \in 1..((Len(s) + k - 1) \div k) |-> s[(i - 1) * k + 1]]

\* the concatenation of a sequence of sequences
RECURSIVE Flatten(_)
Flatten(ss) == IF Len(ss) = 0 THEN <<>> ELSE Head(ss) \o Flatten(Tail(ss))

\* the 0-based indices step_by(k) visits in a sequence of length n
StepByIndices(n, k) == {i \in 0..(n - 1) : i % k = 0}

----------------------------------------------------------------------------
(* JSON argument values and ToolOutcome                                    *)

JInt(n) == [t |-> "int", s |-> "", n |-> n]
JStr(s) == [t |-> "str", s |-> s, n |-> 0]
JFrac == [t |-> "frac", s |-> "", n |-> 0]      \* a number with a fraction
JNull == [t |-> "null", s |-> "", n |-> 0]

NoArgs == [f \in {} |-> JNull]

Text(v) == [kind |-> "Text", value |-> v]
Success(content) == [kind |-> "Success", content |-> content]
Failure(code, message) == [kind |-> "Failure", code |-> code, message |-> message]
\* a panic unwinding out of the handler: no structured outcome is produced
Panic(where) == [kind |-> "Panic", at |-> where]
NoOutcome == [kind |-> "None"]

\* McpError::internal_error(message, None)
Msg(text, field) == [text |-> text, field |-> field]
internal_error(message) == Failure("Internal", Msg(message, ""))

----------------------------------------------------------------------------
(* Parameter structs (serde Deserialize + schemars JsonSchema)             *)

U8Max == 255

Field(name, type, optional) == [name |-> name, type |-> type, optional |-> optional]

\* faulty variant: threshold_seconds declared as an Option
IdleThresholdParams_optional == <<Field("threshold_seconds", "u64", TRUE)>>

\* crates: rmcp-idle, rmcp-git, rmcp-sysinfo, rmcp-weather
IdleThresholdParams == <<Field("threshold_seconds", "u64", FALSE)>>
RepoPathParams == <<Field("path", "String", TRUE)>>
TopProcessesParams == <<Field("count", "usize", TRUE), Field("sort_by", "String", TRUE)>>
FindProcessParams == <<Field("name", "String", FALSE)>>
ProcessIdParams == <<Field("pid", "u32", FALSE)>>
LocationParams == <<Field("location", "String", FALSE)>>
ForecastParams == <<Field("location", "String", FALSE), Field("days", "u8", TRUE)>>

\* the copies declared by the unified server
SensorsServer_IdleThresholdParams == <<Field("threshold_seconds", "u64", FALSE)>>
SensorsServer_RepoPathParams == <<Field("path", "String", TRUE)>>
SensorsServer_TopProcessesParams ==
    <<Field("count", "usize", TRUE), Field("sort_by", "String", TRUE)>>
SensorsServer_LocationParams == <<Field("location", "String", FALSE)>>
SensorsServer_ForecastParams ==
    <<Field("location", "String", FALSE), Field("days", "u8", TRUE)>>

\* a handler without a Parameters<..> argument
NoParams == <<>>

\* does the JSON value v deserialize into the Rust type?  (u32, u64 and usize
\* values above the type's maximum are not among the inputs the model draws)
TypeOk(type, v) ==
    CASE type = "String" -> v.t = "str"
      [] type = "u8" -> v.t = "int" /\ v.n >= 0 /\ v.n <= U8Max
      [] OTHER -> v.t = "int" /\ v.n >= 0

\* is field f of the schema satisfied by the raw argument object?
FieldOk(f, args) ==
    IF f.name \notin DOMAIN args THEN f.optional
    ELSE IF args[f.name].t = "null" THEN f.optional
    ELSE TypeOk(f.type, args[f.name])

FieldReason(f, args) ==
    IF f.name \notin DOMAIN args THEN "missing field" ELSE "invalid type"

\* the typed value of a field: None for an absent or null Option
FieldValue(f, args) ==
    IF f.name \in DOMAIN args /\ args[f.name].t # "null"
    THEN [some |-> TRUE, s |-> args[f.name].s, n |-> args[f.name].n]
    ELSE [some |-> FALSE, s |-> "", n |-> 0]

\* faulty variant: the structs reject fields they do not declare
deny_unknown_fields_set(schema) == TRUE

\* no parameter struct carries #[serde(deny_unknown_fields)]
deny_unknown_fields(schema) == FALSE

\* serde_json::from_value::<Params>(args): fields the struct does not declare
\* are skipped; the first field that is not satisfied is reported
Deserialize(schema, args) ==
    LET bad == {i \in 1..Len(schema) : ~FieldOk(schema[i], args)}
        first == CHOOSE i \in bad : \A j \in bad : i <= j
        unknown == DOMAIN args \ {schema[i].name : i \in 1..Len(schema)}
    IN  IF deny_unknown_fields(schema) /\ unknown # {}
        THEN [ok |-> FALSE, field |-> CHOOSE u \in unknown : TRUE,
              reason |-> "unknown field", value |-> NoArgs]
        ELSE IF bad = {}
        THEN [ok |-> TRUE, field |-> "", reason |-> "",
              value |-> [n \in {schema[i].name : i \in 1..Len(schema)} |->
                            FieldValue(CHOOSE f \in {schema[i] : i \in 1..Len(schema)} :
                                           f.name = n, args)]]
        ELSE [ok |-> FALSE, field |-> schema[first].name,
              reason |-> FieldReason(schema[first], args),
              value |-> NoArgs]

\* Option::unwrap_or
unwrap_or(opt, default) == IF opt.some THEN opt.n ELSE default

Ok(v) == [ok |-> TRUE, value |-> v]
Err(failure) == [ok |-> FALSE, err |-> failure]

----------------------------------------------------------------------------
(* Weather: rmcp-weather and the unified server                            *)

DefaultDays == 3        \* params.days.unwrap_or(3)
ForecastDaysCap == 3    \* .min(3)
HourlyStride == 3       \* day.hourly.iter().step_by(3)

\* the HTTP collaborator answers with a transport error, a non-success
\* status, a body that is not a WttrResponse, or a WttrResponse
WeatherServer_fetch_weather(location, e) ==
    CASE e.http = "send_err" -> Err(internal_error("HTTP request failed"))
      [] e.http = "bad_status" -> Err(internal_error("Weather API returned status"))
      [] e.http = "parse_err" -> Err(internal_error("Failed to parse weather data"))
      [] OTHER -> Ok(e.data)

SensorsServer_fetch_weather(location, e) ==
    CASE e.http = "send_err" -> Err(internal_error("HTTP request failed"))
      [] e.http = "bad_status" -> Err(internal_error("Weather API returned status"))
      [] e.http = "parse_err" -> Err(internal_error("Failed to parse weather data"))
      [] OTHER -> Ok(e.data)

\* data.nearest_area.first().map(..).unwrap_or_else(|| params.location.clone())
WeatherServer_area(data, location) ==
    IF Len(data.nearest_area) > 0 THEN data.nearest_area[1] ELSE location

SensorsServer_area(data, location) ==
    IF Len(data.nearest_area) > 0 THEN data.nearest_area[1] ELSE location

WeatherServer_get_weather(params, e) ==
    LET fetched == WeatherServer_fetch_weather(params.location.s, e)
    IN  IF ~fetched.ok THEN fetched.err
        ELSE IF Len(fetched.value.current_condition) = 0
        THEN internal_error("No current conditions")
        ELSE Success(<<Text([title |-> "Weather",
                             area |-> WeatherServer_area(fetched.value, params.location.s),
                             current |-> fetched.value.current_condition[1]])>>)

SensorsServer_get_weather(params, e) ==
    LET fetched == SensorsServer_fetch_weather(params.location.s, e)
    IN  IF ~fetched.ok THEN fetched.err
        ELSE IF Len(fetched.value.current_condition) = 0
        THEN internal_error("No current conditions")
        ELSE Success(<<Text([title |-> "Weather",
                             area |-> SensorsServer_area(fetched.value, params.location.s),
                             current |-> fetched.value.current_condition[1]])>>)

\* faulty variant: an omitted day count is taken as 1
WeatherServer_forecast_days_default_one(params) ==
    Min(unwrap_or(params.days, 1), ForecastDaysCap)

\* let days = params.days.unwrap_or(3).min(3) as usize;
WeatherServer_forecast_days(params) ==
    Min(unwrap_or(params.days, DefaultDays), ForecastDaysCap)

SensorsServer_forecast_days(params) ==
    Min(unwrap_or(params.days, DefaultDays), ForecastDaysCap)

\* faulty variant: every hourly record is printed
WeatherServer_day_section_every_hour(day) ==
    [date |-> day.date, hours |-> day.hourly]

\* one day section: the date line and one line per sampled hourly record
WeatherServer_day_section(day) ==
    [date |-> day.date, hours |-> StepBy(day.hourly, HourlyStride)]

SensorsServer_day_section(day) ==
    [date |-> day.date, hours |-> StepBy(day.hourly, HourlyStride)]

WeatherServer_get_forecast(params, e) ==
    LET fetched == WeatherServer_fetch_weather(params.location.s, e)
    IN  IF ~fetched.ok THEN fetched.err
        ELSE LET data == fetched.value
                 days == WeatherServer_forecast_days(params)
                 shown == Take(data.weather, days)
             IN  Success(<<Text([title |-> "Forecast",
                                 area |-> WeatherServer_area(data, params.location.s),
                                 days |-> days,
                                 sections |-> [i \in 1..Len(shown) |->
                                                  WeatherServer_day_section(shown[i])]])>>)

SensorsServer_get_forecast(params, e) ==
    LET fetched == SensorsServer_fetch_weather(params.location.s, e)
    IN  IF ~fetched.ok THEN fetched.err
        ELSE LET data == fetched.value
                 days == SensorsServer_forecast_days(params)
                 shown == Take(data.weather, days)
             IN  Success(<<Text([title |-> "Forecast",
                                 area |-> SensorsServer_area(data, params.location.s),
                                 days |-> days,
                                 sections |-> [i \in 1..Len(shown) |->
                                                  SensorsServer_day_section(shown[i])]])>>)

----------------------------------------------------------------------------
(* Git: rmcp-git and the unified server                                    *)

ShownPerBucket == 5     \* staged.iter().take(5)

\* git2::Status is a set of flags; the predicates the handler consults
is_index_new(status) == "INDEX_NEW" \in status
is_index_modified(status) == "INDEX_MODIFIED" \in status
is_index_deleted(status) == "INDEX_DELETED" \in status
is_wt_modified(status) == "WT_MODIFIED" \in status
is_wt_deleted(status) == "WT_DELETED" \in status
is_wt_new(status) == "WT_NEW" \in status

\* faulty variant: the error of Repository::discover is dropped
GitServer_get_repo_unchecked(path, e) == Ok("repo")

\* std::env::current_dir(), with PathBuf::from(".") when it fails: both
\* name the current directory
current_dir == "."

\* Repository::discover(path) as the file system answers it: every path is
\* inside a repository ("ok"), none is ("err"), or only the current
\* directory is ("cwd_only")
discover(repo_path, e) ==
    e.discover = "ok" \/ (e.discover = "cwd_only" /\ repo_path = current_dir)

\* path.map(PathBuf::from).unwrap_or_else(|| current_dir()), then
\* Repository::discover(&repo_path).map_err(..)
GitServer_get_repo(path, e) ==
    LET repo_path == IF path.some THEN path.s ELSE current_dir
    IN  IF discover(repo_path, e) THEN Ok("repo")
        ELSE Err(internal_error("Not a git repository"))

SensorsServer_get_repo(path, e) ==
    LET repo_path == IF path.some THEN path.s ELSE current_dir
    IN  IF discover(repo_path, e) THEN Ok("repo")
        ELSE Err(internal_error("Not a git repository"))

\* the three tests of the loop over statuses.iter(): three independent `if`s
GitServer_in_staged(status) ==
    is_index_new(status) \/ is_index_modified(status) \/ is_index_deleted(status)
\* faulty variant: the second test chained with `else if`
GitServer_in_modified_else_if(status) ==
    /\ ~(is_index_new(status) \/ is_index_modified(status) \/ is_index_deleted(status))
    /\ (is_wt_modified(status) \/ is_wt_deleted(status))
GitServer_in_modified(status) == is_wt_modified(status) \/ is_wt_deleted(status)
GitServer_in_untracked(status) == is_wt_new(status)

SensorsServer_in_staged(status) ==
    is_index_new(status) \/ is_index_modified(status) \/ is_index_deleted(status)
SensorsServer_in_modified(status) == is_wt_modified(status) \/ is_wt_deleted(status)
SensorsServer_in_untracked(status) == is_wt_new(status)

PathsOf(entries) == [i \in 1..Len(entries) |-> entries[i].path]

GitServer_buckets(entries) ==
    [staged |-> PathsOf(SelectSeq(entries, LAMBDA en : GitServer_in_staged(en.status))),
     modified |-> PathsOf(SelectSeq(entries, LAMBDA en : GitServer_in_modified(en.status))),
     untracked |-> PathsOf(SelectSeq(entries, LAMBDA en : GitServer_in_untracked(en.status)))]

SensorsServer_buckets(entries) ==
    [staged |-> PathsOf(SelectSeq(entries, LAMBDA en : SensorsServer_in_staged(en.status))),
     modified |-> PathsOf(SelectSeq(entries, LAMBDA en : SensorsServer_in_modified(en.status))),
     untracked |-> PathsOf(SelectSeq(entries, LAMBDA en : SensorsServer_in_untracked(en.status)))]

Line(kind, label, n, path) == [kind |-> kind, label |-> label, n |-> n, path |-> path]

\* faulty variant: the "... and N more" line is printed from five paths on
BucketLines_more_at_five(label, bucket) ==
    IF Len(bucket) = 0 THEN <<>>
    ELSE <<Line("header", label, Len(bucket), 0)>>
         \o [i \in 1..Min(ShownPerBucket, Len(bucket)) |-> Line("path", label, 0, bucket[i])]
         \o (IF Len(bucket) >= ShownPerBucket
             THEN <<Line("more", label, Len(bucket) - ShownPerBucket, 0)>>
             ELSE <<>>)

\* the lines printed for one bucket: header with the count, the first five
\* paths, and "... and N more" when there are more than five
BucketLines(label, bucket) ==
    IF Len(bucket) = 0 THEN <<>>
    ELSE <<Line("header", label, Len(bucket), 0)>>
         \o [i \in 1..Min(ShownPerBucket, Len(bucket)) |-> Line("path", label, 0, bucket[i])]
         \o (IF Len(bucket) > ShownPerBucket
             THEN <<Line("more", label, Len(bucket) - ShownPerBucket, 0)>>
             ELSE <<>>)

WorkingTreeLines(b) ==
    IF Len(b.staged) = 0 /\ Len(b.modified) = 0 /\ Len(b.untracked) = 0
    THEN <<Line("clean", "", 0, 0)>>
    ELSE BucketLines("Staged", b.staged) \o BucketLines("Modified", b.modified)
         \o BucketLines("Untracked", b.untracked)

\* match repo.head() { Ok(head) => branch + last commit, Err(_) => "(no commits yet)" }
HeadLines(e) ==
    IF e.head = "err" THEN <<Line("branch", "(no commits yet)", 0, 0)>>
    ELSE <<Line("branch", "shorthand", 0, 0)>>
         \o (IF e.peel = "ok" THEN <<Line("last_commit", "", 0, 0)>> ELSE <<>>)

NoBuckets == [staged |-> <<>>, modified |-> <<>>, untracked |-> <<>>]

GitServer_get_status(params, e) ==
    LET repo == GitServer_get_repo(params.path, e)
    IN  IF ~repo.ok THEN repo.err
        ELSE IF e.statuses = "err"
        THEN Success(<<Text([title |-> "Git Repository Status",
                             buckets |-> NoBuckets,
                             lines |-> HeadLines(e)
                                       \o <<Line("status_error", "Could not get status", 0, 0)>>])>>)
        ELSE LET b == GitServer_buckets(e.entries)
             IN  Success(<<Text([title |-> "Git Repository Status",
                                 buckets |-> b,
                                 lines |-> HeadLines(e) \o WorkingTreeLines(b)])>>)

SensorsServer_get_status(params, e) ==
    LET repo == SensorsServer_get_repo(params.path, e)
    IN  IF ~repo.ok THEN repo.err
        ELSE IF e.statuses = "err"
        THEN Success(<<Text([title |-> "Git Repository Status",
                             buckets |-> NoBuckets,
                             lines |-> HeadLines(e)
                                       \o <<Line("status_error", "Could not get status", 0, 0)>>])>>)
        ELSE LET b == SensorsServer_buckets(e.entries)
             IN  Success(<<Text([title |-> "Git Repository Status",
                                 buckets |-> b,
                                 lines |-> HeadLines(e) \o WorkingTreeLines(b)])>>)

LogLimit == 10          \* revwalk.take(10)

\* faulty variant: the walk is not cut off after ten items
log_lines_unbounded(walk) ==
    LET found == SelectSeq([i \in 1..Len(walk) |-> [at |-> i, item |-> walk[i]]],
                           LAMBDA w : w.item = "ok")
    IN  [i \in 1..Len(found) |-> Line("commit", "", found[i].at, 0)]
        \o (IF Len(found) = 0 THEN <<Line("none", "No commits found.", 0, 0)>> ELSE <<>>)

\* the loop over revwalk.take(10): an item that is an error or whose commit
\* cannot be found is skipped; a commit line names its position in the walk
log_lines(walk) ==
    LET walked == Take(walk, LogLimit)
        found == SelectSeq([i \in 1..Len(walked) |-> [at |-> i, item |-> walked[i]]],
                           LAMBDA w : w.item = "ok")
    IN  [i \in 1..Len(found) |-> Line("commit", "", found[i].at, 0)]
        \o (IF Len(found) = 0 THEN <<Line("none", "No commits found.", 0, 0)>> ELSE <<>>)

GitServer_get_log(params, e) ==
    LET repo == GitServer_get_repo(params.path, e)
    IN  IF ~repo.ok THEN repo.err
        ELSE IF e.head = "err" THEN internal_error("No HEAD")
        ELSE IF e.target = "none" THEN internal_error("HEAD has no target")
        ELSE IF e.revwalk = "err" THEN internal_error("Failed to create revwalk")
        ELSE IF e.push = "err" THEN internal_error("Failed to push HEAD")
        ELSE Success(<<Text([title |-> "Recent Commits", lines |-> log_lines(e.walk)])>>)

SensorsServer_get_log(params, e) ==
    LET repo == SensorsServer_get_repo(params.path, e)
    IN  IF ~repo.ok THEN repo.err
        ELSE IF e.head = "err" THEN internal_error("No HEAD")
        ELSE IF e.target = "none" THEN internal_error("HEAD has no target")
        ELSE IF e.revwalk = "err" THEN internal_error("Failed to create revwalk")
        ELSE IF e.push = "err" THEN internal_error("Failed to push HEAD")
        ELSE Success(<<Text([title |-> "Recent Commits", lines |-> log_lines(e.walk)])>>)

----------------------------------------------------------------------------
(* Sysinfo: rmcp-sysinfo and the unified server                            *)

WordBits == 10          \* u64 values are modelled as WordBits-bit words
U64Max == 2^WordBits - 1

TopDefaultCount == 10   \* params.count.unwrap_or(10)
CmdLimit == 200         \* cmd_display.len() > 200, &cmd_display[..200]
FindLimit == 20         \* matches.iter().take(20)

\* `total - free` on u64: with overflow checks (the debug profile) a
\* negative difference panics, without them (the release profile) it wraps
wrapping_sub(a, b) == (a - b + U64Max + 1) % (U64Max + 1)

\* (used as f64 / total as f64 * 100.0) as u64: the cast truncates toward
\* zero and saturates at u64::MAX.  On the sizes the model draws the f64
\* quotient truncates to the exact floor computed here (for other sizes the
\* rounding of the f64 division can give one less, e.g. 29 of 50 shows 57)
percent_of(used, total) == Min((used * 100) \div total, U64Max)

\* one iteration of `for disk in disks.iter()`: the output block of the
\* disk, or a panic of the subtraction
SysinfoServer_disk_block(disk, overflow_checks) ==
    IF disk.free > disk.total /\ overflow_checks
    THEN [panic |-> TRUE, used |-> 0, total |-> disk.total, percent |-> 0]
    ELSE LET used == wrapping_sub(disk.total, disk.free)
         IN  [panic |-> FALSE, used |-> used, total |-> disk.total,
              percent |-> IF disk.total > 0 THEN percent_of(used, disk.total) ELSE 0]

SensorsServer_disk_block(disk, overflow_checks) ==
    IF disk.free > disk.total /\ overflow_checks
    THEN [panic |-> TRUE, used |-> 0, total |-> disk.total, percent |-> 0]
    ELSE LET used == wrapping_sub(disk.total, disk.free)
         IN  [panic |-> FALSE, used |-> used, total |-> disk.total,
              percent |-> IF disk.total > 0 THEN percent_of(used, disk.total) ELSE 0]

SysinfoServer_get_disk_info(params, e) ==
    LET blocks == [i \in 1..Len(e.disks) |->
                      SysinfoServer_disk_block(e.disks[i], e.overflow_checks)]
    IN  IF \E i \in 1..Len(blocks) : blocks[i].panic
        THEN Panic("attempt to subtract with overflow")
        ELSE Success(<<Text([title |-> "Disk Usage", disks |-> blocks])>>)

SensorsServer_get_disk_info(params, e) ==
    LET blocks == [i \in 1..Len(e.disks) |->
                      SensorsServer_disk_block(e.disks[i], e.overflow_checks)]
    IN  IF \E i \in 1..Len(blocks) : blocks[i].panic
        THEN Panic("attempt to subtract with overflow")
        ELSE Success(<<Text([title |-> "Disk Usage", disks |-> blocks])>>)

\* slice::sort_by is a stable sort; with the comparator b.key.cmp(a.key) the
\* element at index i ends at the position counted by the elements that
\* have a larger key, or an equal key and an earlier index
RankDesc(s, Key(_), i) ==
    1 + Cardinality({j \in 1..Len(s) :
                        \/ Key(s[j]) > Key(s[i])
                        \/ Key(s[j]) = Key(s[i]) /\ j < i})

SortDescBy(s, Key(_)) ==
    [r \in 1..Len(s) |-> s[CHOOSE i \in 1..Len(s) : RankDesc(s, Key, i) = r]]

cpu_usage(proc) == proc.cpu
memory(proc) == proc.mem

\* faulty variant: an unrecognised key sorts by memory
SysinfoServer_sorted_unknown_as_memory(processes, sort_by) ==
    IF sort_by = "cpu"
    THEN SortDescBy(processes, cpu_usage)
    ELSE SortDescBy(processes, memory)

\* faulty variant: the sort key is ignored
SysinfoServer_sorted_by_cpu_only(processes, sort_by) == SortDescBy(processes, cpu_usage)

\* match sort_by.as_str() { "memory" | "mem" => by memory, _ => by cpu }
SysinfoServer_sorted(processes, sort_by) ==
    IF sort_by \in {"memory", "mem"}
    THEN SortDescBy(processes, memory)
    ELSE SortDescBy(processes, cpu_usage)

SensorsServer_sorted(processes, sort_by) ==
    IF sort_by \in {"memory", "mem"}
    THEN SortDescBy(processes, memory)
    ELSE SortDescBy(processes, cpu_usage)

SysinfoServer_get_top_processes(params, e) ==
    LET count == unwrap_or(params.count, TopDefaultCount)
        sort_by == IF params.sort_by.some THEN params.sort_by.s ELSE "cpu"
        processes == SysinfoServer_sorted(e.processes, sort_by)
    IN  Success(<<Text([title |-> "Top processes", count |-> count, sort_by |-> sort_by,
                        rows |-> Take(processes, count)])>>)

SensorsServer_get_top_processes(params, e) ==
    LET count == unwrap_or(params.count, TopDefaultCount)
        sort_by == IF params.sort_by.some THEN params.sort_by.s ELSE "cpu"
        processes == SensorsServer_sorted(e.processes, sort_by)
    IN  Success(<<Text([title |-> "Top processes", count |-> count, sort_by |-> sort_by,
                        rows |-> Take(processes, count)])>>)

\* format_duration of rmcp-sysinfo: the parts printed, largest unit first
Part(unit, n) == [unit |-> unit, n |-> n]

format_duration(seconds) ==
    IF seconds < 60 THEN <<Part("s", seconds)>>
    ELSE IF seconds < 3600
    THEN IF seconds % 60 = 0 THEN <<Part("m", seconds \div 60)>>
         ELSE <<Part("m", seconds \div 60), Part("s", seconds % 60)>>
    ELSE IF (seconds % 3600) \div 60 = 0 THEN <<Part("h", seconds \div 3600)>>
         ELSE <<Part("h", seconds \div 3600), Part("m", (seconds % 3600) \div 60)>>

\* str::to_lowercase and str::contains on the process names and search
\* strings the model draws
to_lowercase(str) ==
    CASE str = "Bash" -> "bash"
      [] str = "SH" -> "sh"
      [] OTHER -> str

contains(hay, needle) ==
    \/ needle = ""
    \/ hay = needle
    \/ <<hay, needle>> \in {<<"bash", "sh">>, <<"zsh", "sh">>}

SysinfoServer_find_process(params, e) ==
    LET search == to_lowercase(params.name.s)
        matches == SortDescBy(SelectSeq(e.processes,
                                        LAMBDA p : contains(to_lowercase(p.name), search)),
                              cpu_usage)
    IN  Success(<<Text([title |-> "Processes matching", search |-> params.name.s,
                        rows |-> Take(matches, FindLimit),
                        more |-> IF Len(matches) > FindLimit
                                 THEN Len(matches) - FindLimit ELSE 0,
                        total |-> Len(matches)])>>)

\* a command line is a sequence of runs of n characters of w bytes each
RECURSIVE ByteLen(_)
ByteLen(cmd) ==
    IF Len(cmd) = 0 THEN 0
    ELSE cmd[1].w * cmd[1].n + ByteLen(Tail(cmd))

\* str::is_char_boundary(idx)
is_char_boundary(cmd, idx) ==
    \/ idx = 0
    \/ idx = ByteLen(cmd)
    \/ \E k \in 1..Len(cmd) : \E j \in 0..(cmd[k].n - 1) :
           idx = ByteLen(SubSeq(cmd, 1, k - 1)) + j * cmd[k].w

\* the "Command:" line: the whole command line, its first 200 bytes followed
\* by "...", or a panic of the slice &cmd_display[..200]
SysinfoServer_cmd_line(cmd) ==
    IF ByteLen(cmd) = 0 THEN [panic |-> FALSE, shown |-> 0, dots |-> FALSE]
    ELSE IF ByteLen(cmd) > CmdLimit
    THEN IF is_char_boundary(cmd, CmdLimit)
         THEN [panic |-> FALSE, shown |-> CmdLimit, dots |-> TRUE]
         ELSE [panic |-> TRUE, shown |-> 0, dots |-> FALSE]
    ELSE [panic |-> FALSE, shown |-> ByteLen(cmd), dots |-> FALSE]

SysinfoServer_get_process_details(params, e) ==
    IF ~e.found THEN internal_error("Process not found")
    ELSE LET line == SysinfoServer_cmd_line(e.cmd)
         IN  IF line.panic THEN Panic("byte index is not a char boundary")
             ELSE Success(<<Text([title |-> "Process Details", pid |-> params.pid.n,
                                  running_for |-> format_duration(e.run_time),
                                  command |-> line])>>)

\* (used_mem as f64 / total_mem as f64 * 100.0) as u64, without a guard for
\* total_mem = 0: NaN casts to 0 and infinity saturates
mem_percent(used_mem, total_mem) ==
    IF total_mem = 0 THEN (IF used_mem = 0 THEN 0 ELSE U64Max)
    ELSE percent_of(used_mem, total_mem)

\* the exact sum of a field over the disks; `+=` on u64 overflows when it
\* exceeds u64::MAX
RECURSIVE SumOver(_, _)
SumOver(disks, field) ==
    IF Len(disks) = 0 THEN 0 ELSE Head(disks)[field] + SumOver(Tail(disks), field)

SysinfoServer_get_system_info(params, e) ==
    LET total_disk == SumOver(e.disks, "total")
        free_disk == SumOver(e.disks, "free")
    IN  IF e.overflow_checks /\ (total_disk > U64Max \/ free_disk > U64Max)
        THEN Panic("attempt to add with overflow")
        ELSE Success(<<Text([title |-> "System Information",
                             cpu_name |-> IF e.cpus = 0 THEN "Unknown" ELSE "brand",
                             cpu_count |-> e.cpus,
                             mem_percent |-> mem_percent(e.used_mem, e.total_mem),
                             free_disk |-> free_disk % (U64Max + 1),
                             total_disk |-> total_disk % (U64Max + 1),
                             uptime_hours |-> e.uptime \div 3600,
                             uptime_mins |-> (e.uptime % 3600) \div 60])>>)

SensorsServer_get_system_info(params, e) ==
    LET total_disk == SumOver(e.disks, "total")
        free_disk == SumOver(e.disks, "free")
    IN  IF e.overflow_checks /\ (total_disk > U64Max \/ free_disk > U64Max)
        THEN Panic("attempt to add with overflow")
        ELSE Success(<<Text([title |-> "System Information",
                             cpu_name |-> IF e.cpus = 0 THEN "Unknown" ELSE "brand",
                             cpu_count |-> e.cpus,
                             mem_percent |-> mem_percent(e.used_mem, e.total_mem),
                             free_disk |-> free_disk % (U64Max + 1),
                             total_disk |-> total_disk % (U64Max + 1),
                             uptime_hours |-> e.uptime \div 3600,
                             uptime_mins |-> (e.uptime % 3600) \div 60])>>)

ListLimit == 50         \* processes.iter().take(50)

SysinfoServer_list_processes(params, e) ==
    LET processes == SortDescBy(e.processes, cpu_usage)
    IN  Success(<<Text([title |-> "All Running Processes",
                        rows |-> Take(processes, ListLimit),
                        more |-> IF Len(processes) > ListLimit
                                 THEN Len(processes) - ListLimit ELSE 0,
                        total |-> Len(processes)])>>)

----------------------------------------------------------------------------
(* Idle: rmcp-idle and the unified server                                  *)

IdleDocDefault == 300   \* "Threshold in seconds to check against (default: 300)"

\* faulty variant: the first branch also takes one full minute
IdleServer_format_duration_sixty_seconds(seconds) ==
    IF seconds <= 60 THEN <<Part("s", seconds)>>
    ELSE IF seconds < 3600
    THEN IF seconds % 60 = 0 THEN <<Part("m", seconds \div 60)>>
         ELSE <<Part("m", seconds \div 60), Part("s", seconds % 60)>>
    ELSE IF (seconds % 3600) \div 60 = 0 THEN <<Part("h", seconds \div 3600)>>
         ELSE <<Part("h", seconds \div 3600), Part("m", (seconds % 3600) \div 60)>>

IdleServer_format_duration(seconds) ==
    IF seconds < 60 THEN <<Part("s", seconds)>>
    ELSE IF seconds < 3600
    THEN IF seconds % 60 = 0 THEN <<Part("m", seconds \div 60)>>
         ELSE <<Part("m", seconds \div 60), Part("s", seconds % 60)>>
    ELSE IF (seconds % 3600) \div 60 = 0 THEN <<Part("h", seconds \div 3600)>>
         ELSE <<Part("h", seconds \div 3600), Part("m", (seconds % 3600) \div 60)>>

SensorsServer_format_duration(seconds) ==
    IF seconds < 60 THEN <<Part("s", seconds)>>
    ELSE IF seconds < 3600
    THEN IF seconds % 60 = 0 THEN <<Part("m", seconds \div 60)>>
         ELSE <<Part("m", seconds \div 60), Part("s", seconds % 60)>>
    ELSE IF (seconds % 3600) \div 60 = 0 THEN <<Part("h", seconds \div 3600)>>
         ELSE <<Part("h", seconds \div 3600), Part("m", (seconds % 3600) \div 60)>>

IdleServer_get_idle_time(params, e) ==
    IF e.idle = "err" THEN internal_error("Failed to get idle time")
    ELSE Success(<<Text([title |-> "User Idle Time",
                         seconds |-> e.seconds,
                         formatted |-> IdleServer_format_duration(e.seconds)])>>)

SensorsServer_get_idle_time(params, e) ==
    IF e.idle = "err" THEN internal_error("Failed to get idle time")
    ELSE Success(<<Text([title |-> "User Idle Time",
                         seconds |-> e.seconds,
                         formatted |-> SensorsServer_format_duration(e.seconds)])>>)

\* faulty variant: the comparison is strict
IdleServer_is_idle_for_strict(params, e) ==
    IF e.idle = "err" THEN internal_error("Failed to get idle time")
    ELSE LET seconds == e.seconds
             threshold == params.threshold_seconds.n
         IN  Success(<<Text([title |-> "Idle Check",
                             seconds |-> seconds,
                             seconds_fmt |-> IdleServer_format_duration(seconds),
                             threshold |-> threshold,
                             threshold_fmt |-> IdleServer_format_duration(threshold),
                             is_idle |-> IF seconds > threshold THEN "YES" ELSE "NO"])>>)

\* let is_idle = seconds >= threshold
IdleServer_is_idle_for(params, e) ==
    IF e.idle = "err" THEN internal_error("Failed to get idle time")
    ELSE LET seconds == e.seconds
             threshold == params.threshold_seconds.n
         IN  Success(<<Text([title |-> "Idle Check",
                             seconds |-> seconds,
                             seconds_fmt |-> IdleServer_format_duration(seconds),
                             threshold |-> threshold,
                             threshold_fmt |-> IdleServer_format_duration(threshold),
                             is_idle |-> IF seconds >= threshold THEN "YES" ELSE "NO"])>>)

SensorsServer_is_idle_for(params, e) ==
    IF e.idle = "err" THEN internal_error("Failed to get idle time")
    ELSE LET seconds == e.seconds
             threshold == params.threshold_seconds.n
         IN  Success(<<Text([title |-> "Idle Check",
                             seconds |-> seconds,
                             seconds_fmt |-> SensorsServer_format_duration(seconds),
                             threshold |-> threshold,
                             threshold_fmt |-> SensorsServer_format_duration(threshold),
                             is_idle |-> IF seconds >= threshold THEN "YES" ELSE "NO"])>>)

----------------------------------------------------------------------------
(* Bluetooth: rmcp-bluetooth and the unified server                        *)

ScanSeconds == 3        \* tokio::time::sleep(Duration::from_secs(3))

Ev(op, adapter) == [op |-> op, adapter |-> adapter]

\* adapter.adapter_info().await.unwrap_or_else(|_| "Unknown adapter".to_string())
adapter_label(a) == IF a.info = "err" THEN "Unknown adapter" ELSE a.info

\* faulty variant: a peripherals() error is returned before stop_scan is issued
BluetoothServer_scan_adapter_returns_scanning(a, i) ==
    IF a.start = "err"
    THEN [failed |-> FALSE,
          lines |-> <<Line("adapter", adapter_label(a), i, 0), Line("could_not_scan", "", i, 0)>>,
          trace |-> <<Ev("adapter_info", i), Ev("start_scan", i)>>]
    ELSE IF a.peripherals = "err"
    THEN [failed |-> TRUE,
          lines |-> <<Line("adapter", adapter_label(a), i, 0)>>,
          trace |-> <<Ev("adapter_info", i), Ev("start_scan", i), Ev("sleep", i),
                      Ev("peripherals", i)>>]
    ELSE [failed |-> FALSE,
          lines |-> <<Line("adapter", adapter_label(a), i, 0)>>
                    \o (IF a.found = 0 THEN <<Line("no_devices", "", i, 0)>>
                        ELSE [k \in 1..a.found |-> Line("device", "", i, k)]
                             \o <<Line("total", "", a.found, 0)>>),
          trace |-> <<Ev("adapter_info", i), Ev("start_scan", i), Ev("sleep", i),
                      Ev("stop_scan", i), Ev("peripherals", i)>>]

\* the body of `for adapter in adapters` for adapter number i: the lines it
\* prints, the collaborator operations it issues, and whether `?` leaves
\* the handler with the peripherals error
BluetoothServer_scan_adapter(a, i) ==
    IF a.start = "err"
    THEN [failed |-> FALSE,
          lines |-> <<Line("adapter", adapter_label(a), i, 0), Line("could_not_scan", "", i, 0)>>,
          trace |-> <<Ev("adapter_info", i), Ev("start_scan", i)>>]
    ELSE IF a.peripherals = "err"
    THEN [failed |-> TRUE,
          lines |-> <<Line("adapter", adapter_label(a), i, 0)>>,
          trace |-> <<Ev("adapter_info", i), Ev("start_scan", i), Ev("sleep", i),
                      Ev("stop_scan", i), Ev("peripherals", i)>>]
    ELSE [failed |-> FALSE,
          lines |-> <<Line("adapter", adapter_label(a), i, 0)>>
                    \o (IF a.found = 0 THEN <<Line("no_devices", "", i, 0)>>
                        ELSE [k \in 1..a.found |-> Line("device", "", i, k)]
                             \o <<Line("total", "", a.found, 0)>>),
          trace |-> <<Ev("adapter_info", i), Ev("start_scan", i), Ev("sleep", i),
                      Ev("stop_scan", i), Ev("peripherals", i)>>]

SensorsServer_scan_adapter(a, i) ==
    IF a.start = "err"
    THEN [failed |-> FALSE,
          lines |-> <<Line("adapter", adapter_label(a), i, 0), Line("could_not_scan", "", i, 0)>>,
          trace |-> <<Ev("adapter_info", i), Ev("start_scan", i)>>]
    ELSE IF a.peripherals = "err"
    THEN [failed |-> TRUE,
          lines |-> <<Line("adapter", adapter_label(a), i, 0)>>,
          trace |-> <<Ev("adapter_info", i), Ev("start_scan", i), Ev("sleep", i),
                      Ev("stop_scan", i), Ev("peripherals", i)>>]
    ELSE [failed |-> FALSE,
          lines |-> <<Line("adapter", adapter_label(a), i, 0)>>
                    \o (IF a.found = 0 THEN <<Line("no_devices", "", i, 0)>>
                        ELSE [k \in 1..a.found |-> Line("device", "", i, k)]
                             \o <<Line("total", "", a.found, 0)>>),
          trace |-> <<Ev("adapter_info", i), Ev("start_scan", i), Ev("sleep", i),
                      Ev("stop_scan", i), Ev("peripherals", i)>>]

\* the adapters are scanned one after another; the loop ends at the first
\* adapter whose peripherals() fails
RECURSIVE BluetoothServer_scan_loop(_, _, _)
BluetoothServer_scan_loop(adapters, i, acc) ==
    IF i > Len(adapters) THEN acc
    ELSE LET r == BluetoothServer_scan_adapter(adapters[i], i)
             next == [failed |-> r.failed, lines |-> acc.lines \o r.lines,
                      trace |-> acc.trace \o r.trace]
         IN  IF r.failed THEN next ELSE BluetoothServer_scan_loop(adapters, i + 1, next)

RECURSIVE SensorsServer_scan_loop(_, _, _)
SensorsServer_scan_loop(adapters, i, acc) ==
    IF i > Len(adapters) THEN acc
    ELSE LET r == SensorsServer_scan_adapter(adapters[i], i)
             next == [failed |-> r.failed, lines |-> acc.lines \o r.lines,
                      trace |-> acc.trace \o r.trace]
         IN  IF r.failed THEN next ELSE SensorsServer_scan_loop(adapters, i + 1, next)

NoScan == [failed |-> FALSE, lines |-> <<>>, trace |-> <<>>]

\* faulty variant: the early return for no adapters carries no content block
BluetoothServer_scan_ble_devices_empty_content(params, e) ==
    IF e.manager = "err" THEN internal_error("Failed to create BT manager")
    ELSE IF e.adapters = "err" THEN internal_error("Failed to get adapters")
    ELSE IF Len(e.list) = 0
    THEN Success(<<>>)
    ELSE LET r == BluetoothServer_scan_loop(e.list, 1, NoScan)
         IN  IF r.failed THEN internal_error("Failed to get peripherals")
             ELSE Success(<<Text([title |-> "Bluetooth Devices", lines |-> r.lines])>>)

BluetoothServer_scan_ble_devices(params, e) ==
    IF e.manager = "err" THEN internal_error("Failed to create BT manager")
    ELSE IF e.adapters = "err" THEN internal_error("Failed to get adapters")
    ELSE IF Len(e.list) = 0
    THEN Success(<<Text([title |-> "Bluetooth Status",
                         lines |-> <<Line("no_adapters", "", 0, 0)>>])>>)
    ELSE LET r == BluetoothServer_scan_loop(e.list, 1, NoScan)
         IN  IF r.failed THEN internal_error("Failed to get peripherals")
             ELSE Success(<<Text([title |-> "Bluetooth Devices", lines |-> r.lines])>>)

SensorsServer_scan_ble_devices(params, e) ==
    IF e.manager = "err" THEN internal_error("Failed to create BT manager")
    ELSE IF e.adapters = "err" THEN internal_error("Failed to get adapters")
    ELSE IF Len(e.list) = 0
    THEN Success(<<Text([title |-> "Bluetooth Status",
                         lines |-> <<Line("no_adapters", "", 0, 0)>>])>>)
    ELSE LET r == SensorsServer_scan_loop(e.list, 1, NoScan)
         IN  IF r.failed THEN internal_error("Failed to get peripherals")
             ELSE Success(<<Text([title |-> "Bluetooth Devices", lines |-> r.lines])>>)

----------------------------------------------------------------------------
(* Display, network, USB, battery: the per-sensor crates and the unified   *)
(* server                                                                  *)

\* DisplayServer::format_display_info: "No displays detected." and an early
\* return for an empty list, else one block per display and the total
DisplayServer_format_display_info(displays) ==
    IF Len(displays) = 0 THEN <<Line("none", "No displays detected.", 0, 0)>>
    ELSE Flatten([i \in 1..Len(displays) |->
                <<Line("display", displays[i].name, i, 0)>>
                \o (IF displays[i].rotation # 0
                    THEN <<Line("rotation", "", i, displays[i].rotation)>>
                    ELSE <<>>)])
         \o <<Line("total", "Total displays", Len(displays), 0)>>

DisplayServer_get_display_info(params, e) ==
    IF e.all = "err" THEN internal_error("Failed to get display info")
    ELSE Success(<<Text([title |-> "Display Information",
                         lines |-> DisplayServer_format_display_info(e.displays)])>>)

\* the unified server formats in place and prints no rotation line
SensorsServer_get_display_info(params, e) ==
    IF e.all = "err" THEN internal_error("Failed to get display info")
    ELSE Success(<<Text([title |-> "Display Information",
                         lines |->
                            IF Len(e.displays) = 0
                            THEN <<Line("none", "No displays detected.", 0, 0)>>
                            ELSE [i \in 1..Len(e.displays) |->
                                      Line("display", e.displays[i].name, i, 0)]
                                 \o <<Line("total", "Total displays", Len(e.displays), 0)>>])>>)

\* the summary counts the interfaces that have an address
active_count(interfaces) == Len(SelectSeq(interfaces, LAMBDA i : i.addrs > 0))

NetworkServer_format_interfaces(interfaces) ==
    IF Len(interfaces) = 0 THEN <<Line("none", "No network interfaces found.", 0, 0)>>
    ELSE [i \in 1..Len(interfaces) |-> Line("iface", interfaces[i].name, i, 0)]
         \o <<Line("total", "Total interfaces", Len(interfaces), active_count(interfaces))>>

NetworkServer_get_interfaces(params, e) ==
    IF e.show = "err" THEN internal_error("Failed to get network interfaces")
    ELSE Success(<<Text([title |-> "Network Interfaces",
                         lines |-> NetworkServer_format_interfaces(e.interfaces)])>>)

SensorsServer_get_interfaces(params, e) ==
    IF e.show = "err" THEN internal_error("Failed to get network interfaces")
    ELSE Success(<<Text([title |-> "Network Interfaces",
                         lines |->
                            IF Len(e.interfaces) = 0
                            THEN <<Line("none", "No network interfaces found.", 0, 0)>>
                            ELSE [i \in 1..Len(e.interfaces) |->
                                      Line("iface", e.interfaces[i].name, i, 0)]
                                 \o <<Line("total", "Total interfaces", Len(e.interfaces),
                                           active_count(e.interfaces))>>])>>)

\* display name: the product string, else "Device vvvv:pppp"
display_name(device) == IF device.product # "" THEN device.product ELSE "Device"

UsbServer_get_usb_devices(params, e) ==
    IF e.list_devices = "err" THEN internal_error("Failed to list USB devices")
    ELSE LET count == Len(e.devices)
         IN  Success(<<Text([title |-> "USB Devices",
                             lines |->
                                [i \in 1..count |-> Line("device", display_name(e.devices[i]), i, 0)]
                                \o (IF count = 0
                                    THEN <<Line("none", "No USB devices found.", 0, 0)>>
                                    ELSE <<Line("total", "Total", count, 0)>>)])>>)

SensorsServer_get_usb_devices(params, e) ==
    IF e.list_devices = "err" THEN internal_error("Failed to list USB devices")
    ELSE LET count == Len(e.devices)
         IN  Success(<<Text([title |-> "USB Devices",
                             lines |->
                                [i \in 1..count |-> Line("device", display_name(e.devices[i]), i, 0)]
                                \o (IF count = 0
                                    THEN <<Line("none", "No USB devices found.", 0, 0)>>
                                    ELSE <<Line("total", "Total", count, 0)>>)])>>)

\* manager.batteries()?.filter_map(|b| b.ok()).collect(): the batteries that
\* could not be read are dropped
readable(list) == SelectSeq(list, LAMBDA b : b = "ok")

\* faulty variant: an empty battery list is reported as an error
BatteryServer_get_battery_status_empty_is_error(params, e) ==
    IF e.manager = "err" THEN internal_error("Failed to create battery manager")
    ELSE IF e.batteries = "err" THEN internal_error("Failed to get batteries")
    ELSE LET batteries == readable(e.list)
         IN  IF Len(batteries) = 0
             THEN internal_error("No batteries detected")
             ELSE Success(<<Text([title |-> "Battery Status",
                                  lines |->
                                     [i \in 1..Len(batteries) |-> Line("battery", "", i, 0)]
                                     \o <<Line("total", "Total batteries",
                                               Len(batteries), 0)>>])>>)

\* the crate returns early for an empty list, the unified server uses else
BatteryServer_get_battery_status(params, e) ==
    IF e.manager = "err" THEN internal_error("Failed to create battery manager")
    ELSE IF e.batteries = "err" THEN internal_error("Failed to get batteries")
    ELSE LET batteries == readable(e.list)
         IN  IF Len(batteries) = 0
             THEN Success(<<Text([title |-> "Battery Status",
                                  lines |-> <<Line("none", "No batteries detected.", 0, 0)>>])>>)
             ELSE Success(<<Text([title |-> "Battery Status",
                                  lines |->
                                     [i \in 1..Len(batteries) |-> Line("battery", "", i, 0)]
                                     \o <<Line("total", "Total batteries",
                                               Len(batteries), 0)>>])>>)

SensorsServer_get_battery_status(params, e) ==
    IF e.manager = "err" THEN internal_error("Failed to create battery manager")
    ELSE IF e.batteries = "err" THEN internal_error("Failed to get batteries")
    ELSE LET batteries == readable(e.list)
         IN  Success(<<Text([title |-> "Battery Status",
                             lines |->
                                IF Len(batteries) = 0
                                THEN <<Line("none", "No batteries detected.", 0, 0)>>
                                ELSE [i \in 1..Len(batteries) |-> Line("battery", "", i, 0)]
                                     \o <<Line("total", "Total batteries",
                                               Len(batteries), 0)>>])>>)

----------------------------------------------------------------------------
(* Tool registries and dispatch                                            *)

\* faulty variant: get_log is registered under the name of get_status
SensorsServer_tool_router_duplicate ==
    <<"get_display_info", "get_idle_time", "is_idle_for", "get_interfaces",
      "get_usb_devices", "get_battery_status", "scan_ble_devices", "get_status",
      "get_status", "get_system_info", "get_disk_info", "get_top_processes",
      "get_weather", "get_forecast">>

\* the tools of each #[rmcp::tool_router] impl, in source order
SensorsServer_tool_router ==
    <<"get_display_info", "get_idle_time", "is_idle_for", "get_interfaces",
      "get_usb_devices", "get_battery_status", "scan_ble_devices", "get_status",
      "get_log", "get_system_info", "get_disk_info", "get_top_processes",
      "get_weather", "get_forecast">>
SysinfoServer_tool_router ==
    <<"get_system_info", "get_disk_info", "get_top_processes", "find_process",
      "get_process_details", "list_processes">>
WeatherServer_tool_router == <<"get_weather", "get_forecast">>
IdleServer_tool_router == <<"get_idle_time", "is_idle_for">>
GitServer_tool_router == <<"get_status", "get_log">>
BluetoothServer_tool_router == <<"scan_ble_devices">>
DisplayServer_tool_router == <<"get_display_info">>
NetworkServer_tool_router == <<"get_interfaces">>
UsbServer_tool_router == <<"get_usb_devices">>
BatteryServer_tool_router == <<"get_battery_status">>

Servers ==
    {"SensorsServer", "SysinfoServer", "WeatherServer", "IdleServer", "GitServer",
     "BluetoothServer", "DisplayServer", "NetworkServer", "UsbServer", "BatteryServer"}

tool_router(server) ==
    CASE server = "SensorsServer" -> SensorsServer_tool_router
      [] server = "SysinfoServer" -> SysinfoServer_tool_router
      [] server = "WeatherServer" -> WeatherServer_tool_router
      [] server = "IdleServer" -> IdleServer_tool_router
      [] server = "GitServer" -> GitServer_tool_router
      [] server = "BluetoothServer" -> BluetoothServer_tool_router
      [] server = "DisplayServer" -> DisplayServer_tool_router
      [] server = "NetworkServer" -> NetworkServer_tool_router
      [] server = "UsbServer" -> UsbServer_tool_router
      [] server = "BatteryServer" -> BatteryServer_tool_router

Range(seq) == {seq[i] : i \in 1..Len(seq)}

\* the parameter struct of the handler's Parameters<..> argument
Schema(server, name) ==
    CASE name = "is_idle_for" ->
            IF server = "SensorsServer" THEN SensorsServer_IdleThresholdParams
            ELSE IdleThresholdParams
      [] name \in {"get_status", "get_log"} ->
            IF server = "SensorsServer" THEN SensorsServer_RepoPathParams
            ELSE RepoPathParams
      [] name = "get_top_processes" ->
            IF server = "SensorsServer" THEN SensorsServer_TopProcessesParams
            ELSE TopProcessesParams
      [] name = "get_weather" ->
            IF server = "SensorsServer" THEN SensorsServer_LocationParams
            ELSE LocationParams
      [] name = "get_forecast" ->
            IF server = "SensorsServer" THEN SensorsServer_ForecastParams
            ELSE ForecastParams
      [] name = "find_process" -> FindProcessParams
      [] name = "get_process_details" -> ProcessIdParams
      [] OTHER -> NoParams

\* the handler the router entry of `name` points to
Body(server, name, params, e) ==
    IF server = "SensorsServer"
    THEN CASE name = "get_forecast" -> SensorsServer_get_forecast(params, e)
           [] name = "get_weather" -> SensorsServer_get_weather(params, e)
           [] name = "get_status" -> SensorsServer_get_status(params, e)
           [] name = "get_disk_info" -> SensorsServer_get_disk_info(params, e)
           [] name = "get_top_processes" -> SensorsServer_get_top_processes(params, e)
           [] name = "is_idle_for" -> SensorsServer_is_idle_for(params, e)
           [] name = "scan_ble_devices" -> SensorsServer_scan_ble_devices(params, e)
           [] name = "get_idle_time" -> SensorsServer_get_idle_time(params, e)
           [] name = "get_log" -> SensorsServer_get_log(params, e)
           [] name = "get_system_info" -> SensorsServer_get_system_info(params, e)
           [] name = "get_display_info" -> SensorsServer_get_display_info(params, e)
           [] name = "get_interfaces" -> SensorsServer_get_interfaces(params, e)
           [] name = "get_usb_devices" -> SensorsServer_get_usb_devices(params, e)
           [] name = "get_battery_status" -> SensorsServer_get_battery_status(params, e)
    ELSE CASE name = "get_forecast" -> WeatherServer_get_forecast(params, e)
           [] name = "get_weather" -> WeatherServer_get_weather(params, e)
           [] name = "get_status" -> GitServer_get_status(params, e)
           [] name = "get_disk_info" -> SysinfoServer_get_disk_info(params, e)
           [] name = "get_top_processes" -> SysinfoServer_get_top_processes(params, e)
           [] name = "find_process" -> SysinfoServer_find_process(params, e)
           [] name = "get_process_details" -> SysinfoServer_get_process_details(params, e)
           [] name = "is_idle_for" -> IdleServer_is_idle_for(params, e)
           [] name = "scan_ble_devices" -> BluetoothServer_scan_ble_devices(params, e)
           [] name = "get_idle_time" -> IdleServer_get_idle_time(params, e)
           [] name = "get_log" -> GitServer_get_log(params, e)
           [] name = "get_system_info" -> SysinfoServer_get_system_info(params, e)
           [] name = "list_processes" -> SysinfoServer_list_processes(params, e)
           [] name = "get_display_info" -> DisplayServer_get_display_info(params, e)
           [] name = "get_interfaces" -> NetworkServer_get_interfaces(params, e)
           [] name = "get_usb_devices" -> UsbServer_get_usb_devices(params, e)
           [] name = "get_battery_status" -> BatteryServer_get_battery_status(params, e)

\* #[rmcp::tool(description = "...")] of each handler; the unified server and
\* the crates use the same texts
description(name) ==
    CASE name = "get_display_info" ->
            "Get display/monitor information (connected displays, resolutions, physical sizes)"
      [] name = "get_idle_time" ->
            "Get user idle time (how long since last keyboard/mouse input)"
      [] name = "is_idle_for" -> "Check if user has been idle longer than specified seconds"
      [] name = "get_interfaces" ->
            "List all network interfaces with their IP addresses and MAC addresses"
      [] name = "get_usb_devices" -> "List all connected USB devices with vendor/product info"
      [] name = "get_battery_status" ->
            "Get battery/power status (charge level, charging state, time remaining)"
      [] name = "scan_ble_devices" -> "Scan for nearby Bluetooth Low Energy (BLE) devices"
      [] name = "get_status" ->
            "Get git repository status (branch, uncommitted changes, last commit)"
      [] name = "get_log" -> "Get recent git commits (last 10)"
      [] name = "get_system_info" ->
            "Get system overview: CPU usage, memory, disk space, uptime"
      [] name = "get_disk_info" -> "Get detailed disk usage for all mounted filesystems"
      [] name = "get_top_processes" -> "Get top processes by CPU or memory usage"
      [] name = "find_process" -> "Find processes by name (case-insensitive, partial match)"
      [] name = "get_process_details" ->
            "Get detailed information about a specific process by PID"
      [] name = "list_processes" -> "List all running processes (sorted by CPU usage)"
      [] name = "get_weather" -> "Get current weather conditions for a location"
      [] name = "get_forecast" -> "Get weather forecast for upcoming days"

\* the descriptor the tool macro generates for a handler
Tool(server, name) ==
    [name |-> name, description |-> description(name), input_schema |-> Schema(server, name)]

\* Self { tool_router: Self::tool_router() }: the descriptors of the server's
\* tools, in the order of the impl block
new(server) == [i \in 1..Len(tool_router(server)) |-> Tool(server, tool_router(server)[i])]

\* list(): all descriptors, in registration order
list_all(router) == router

\* faulty variant: the arguments are validated before the name is looked up
call_tool_validate_first(server, name, args, e) ==
    LET p == Deserialize(Schema(server, name), args)
    IN  IF ~p.ok
        THEN [outcome |-> Failure("InvalidArgument", Msg(p.reason, p.field)),
              invoked |-> FALSE]
        ELSE IF name \notin Range(tool_router(server))
        THEN [outcome |-> Failure("NotFound", Msg("unknown tool", name)), invoked |-> FALSE]
        ELSE [outcome |-> Body(server, name, p.value, e), invoked |-> TRUE]

\* dispatch(name, raw_args): look the name up, deserialize the arguments into
\* the tool's parameter struct, run the tool body
call_tool(server, name, args, e) ==
    IF name \notin Range(tool_router(server))
    THEN [outcome |-> Failure("NotFound", Msg("unknown tool", name)), invoked |-> FALSE]
    ELSE LET p == Deserialize(Schema(server, name), args)
         IN  IF ~p.ok
             THEN [outcome |-> Failure("InvalidArgument", Msg(p.reason, p.field)),
                   invoked |-> FALSE]
             ELSE [outcome |-> Body(server, name, p.value, e), invoked |-> TRUE]

----------------------------------------------------------------------------
(* Inputs: raw argument objects and collaborator answers                   *)

Absent == [t |-> "absent", s |-> "", n |-> 0]

\* the JSON object with field f (and g) unless its value is Absent
Obj1(f, v) == [x \in (IF v.t = "absent" THEN {} ELSE {f}) |-> v]
Obj2(f, v, g, w) ==
    [x \in ((IF v.t = "absent" THEN {} ELSE {f}) \cup (IF w.t = "absent" THEN {} ELSE {g}))
        |-> IF x = f THEN v ELSE w]

SeqsUpTo(S, n) == UNION {[1..k -> S] : k \in 0..n}

\* the argument object with one more field, which no parameter struct declares
WithExtra(args, v) ==
    [x \in DOMAIN args \cup {"extra"} |-> IF x = "extra" THEN v ELSE args[x]]
Extras(args) == {WithExtra(args, v) : v \in {JInt(1), JStr("x")}}

\* the arguments sent to a tool that takes none
NoParamArgs == {NoArgs} \cup Extras(NoArgs)

LocationValues == {Absent, JStr("Paris"), JInt(7)}
DaysValues ==
    {Absent, JNull, JStr("2"), JFrac, JInt(-1), JInt(U8Max), JInt(U8Max + 1)}
        \cup {JInt(d) : d \in 0..MaxDaysReq}

LocationArgs ==
    {Obj1("location", v) : v \in LocationValues} \cup Extras(Obj1("location", JStr("Paris")))
ForecastArgs ==
    {Obj2("location", v, "days", w) : v \in LocationValues, w \in DaysValues}
    \cup Extras(Obj2("location", JStr("Paris"), "days", JInt(2)))

\* a response of n days; day i carries (h + i - 1) mod (MaxHourly + 1)
\* hourly records, each named by its 0-based index
WeatherList(n, h) ==
    [i \in 1..n |-> [date |-> i,
                     hourly |-> [k \in 1..((h + i - 1) % (MaxHourly + 1)) |-> k - 1]]]

EmptyData == [current_condition |-> <<>>, nearest_area |-> <<>>, weather |-> <<>>]
HttpErrors == {[http |-> h, data |-> EmptyData] : h \in {"send_err", "bad_status", "parse_err"}}

ForecastEnvs ==
    HttpErrors \cup
    {[http |-> "ok",
      data |-> [current_condition |-> <<"cc">>, nearest_area |-> na,
                weather |-> WeatherList(n, h)]] :
        na \in {<<>>, <<"Area, Region">>}, n \in 0..MaxWeatherDays, h \in 0..MaxHourly}

WeatherEnvs ==
    HttpErrors \cup
    {[http |-> "ok", data |-> [current_condition |-> cc, nearest_area |-> na,
                               weather |-> <<>>]] :
        cc \in {<<>>, <<"cc">>}, na \in {<<>>, <<"Area, Region">>}}

PathArgs ==
    {Obj1("path", v) : v \in {Absent, JNull, JStr("/repo"), JStr("."), JInt(7)}}
    \cup Extras(Obj1("path", JStr("/repo")))

\* the flags of one status entry: at most one change on the index side, at
\* most one on the worktree side, or a conflict
IndexSide == {{}, {"INDEX_NEW"}, {"INDEX_MODIFIED"}, {"INDEX_DELETED"}, {"INDEX_TYPECHANGE"}}
WtSide == {{}, {"WT_NEW"}, {"WT_MODIFIED"}, {"WT_DELETED"}, {"WT_TYPECHANGE"}}
StatusValues == ({i \cup w : i \in IndexSide, w \in WtSide} \ {{}}) \cup {{"CONFLICTED"}}

EntryLists ==
    {[i \in DOMAIN f |-> [path |-> i, status |-> f[i]]] : f \in SeqsUpTo(StatusValues, MaxEntries)}

\* longer status lists, of entries that are either staged and modified again
\* or untracked, so that a bucket can hold more paths than are shown
LongStatus == {{"INDEX_MODIFIED", "WT_MODIFIED"}, {"WT_NEW"}}
LongEntryLists ==
    {[i \in DOMAIN f |-> [path |-> i, status |-> f[i]]] :
        f \in UNION {[1..k -> LongStatus] : k \in (MaxEntries + 1)..MaxLongList}}

GitEnv(d, h, p, st, es) ==
    [discover |-> d, head |-> h, peel |-> p, statuses |-> st, entries |-> es]

StatusEnvs ==
    {GitEnv("err", "ok", "ok", "ok", <<>>)}
    \cup {GitEnv("ok", h, p, st, <<>>) :
            h \in {"ok", "err"}, p \in {"ok", "err"}, st \in {"ok", "err"}}
    \cup {GitEnv("ok", "ok", "ok", "ok", es) : es \in EntryLists \cup LongEntryLists}
    \cup {GitEnv("cwd_only", "ok", "ok", "ok", es) : es \in {x \in EntryLists : Len(x) = 0}}

SpaceValues == (0..MaxSpace) \cup {BigSpace, U64Max}
DiskEnvs ==
    {[disks |-> d, overflow_checks |-> oc] :
        d \in SeqsUpTo([total : SpaceValues, free : SpaceValues], MaxDisks),
        oc \in BOOLEAN}

Snapshots(Attrs) ==
    {[i \in DOMAIN f |-> [pid |-> i, cpu |-> f[i].cpu, mem |-> f[i].mem, name |-> f[i].name]] :
        f \in SeqsUpTo(Attrs, MaxProcs)}

TopArgs ==
    {Obj2("count", c, "sort_by", k) :
        c \in {Absent, JNull, JStr("ten"), JInt(-1), JFrac} \cup {JInt(n) : n \in 0..MaxCount},
        k \in {Absent, JStr("cpu"), JStr("memory"), JStr("mem"), JStr("bogus")}}
    \cup Extras(Obj2("count", JInt(1), "sort_by", JStr("memory")))
TopEnvs ==
    {[processes |-> ps] :
        ps \in Snapshots([cpu : 0..MaxLoad, mem : 0..MaxLoad, name : {"init"}])}

\* snapshots with more processes than list_processes prints
LargeSnapshots ==
    {[i \in 1..n |-> [pid |-> i, cpu |-> (i + k) % 2, mem |-> 0, name |-> "init"]] :
        n \in (ListLimit + 1)..(ListLimit + MaxExtraProcs), k \in 0..1}
ListEnvs == TopEnvs \cup {[processes |-> ps] : ps \in LargeSnapshots}

FindArgs ==
    {Obj1("name", v) : v \in {Absent, JInt(7), JStr("sh"), JStr("SH"), JStr("init"), JStr("")}}
    \cup Extras(Obj1("name", JStr("sh")))
FindEnvs ==
    {[processes |-> ps] :
        ps \in Snapshots([cpu : 0..MaxLoad, mem : {0}, name : {"Bash", "zsh", "init"}])}

Run(w, n) == [w |-> w, n |-> n]
CmdLines ==
    {<<>>} \cup
    {<<Run(1, a), Run(w, 1), Run(1, t)>> :
        a \in {0} \cup {CmdLimit - k : k \in 0..MaxBack}, w \in 1..4, t \in 0..MaxTail}

PidArgs ==
    {Obj1("pid", v) : v \in {Absent, JNull, JStr("1"), JInt(-1), JInt(1)}}
    \cup Extras(Obj1("pid", JInt(1)))
\* durations around the unit boundaries of format_duration
DurationSamples ==
    {h * 3600 + m * 60 + s : h \in 0..MaxHours, m \in {0, 1, 59}, s \in {0, 1, 59}}

DetailsEnvs ==
    {[found |-> FALSE, cmd |-> <<>>, run_time |-> 0]}
    \cup {[found |-> TRUE, cmd |-> <<>>, run_time |-> t] : t \in DurationSamples}
    \cup {[found |-> TRUE, cmd |-> c, run_time |-> t] : c \in CmdLines, t \in {0, 61, 3600}}

IdleSamples ==
    (0..MaxIdle) \cup {IdleDocDefault - 1, IdleDocDefault, IdleDocDefault + 1, U64Max}
ThresholdArgs ==
    {Obj1("threshold_seconds", v) :
        v \in {Absent, JNull, JStr("300"), JInt(-1)} \cup {JInt(x) : x \in IdleSamples}}
    \cup Extras(Obj1("threshold_seconds", JInt(IdleDocDefault)))
IdleEnvs ==
    {[idle |-> "err", seconds |-> 0]} \cup {[idle |-> "ok", seconds |-> x] : x \in IdleSamples}
IdleTimeEnvs == IdleEnvs \cup {[idle |-> "ok", seconds |-> x] : x \in DurationSamples}

\* an adapter whose start_scan fails is asked nothing more
AdapterAnswers ==
    {[info |-> i, start |-> "err", stop |-> "ok", peripherals |-> "ok", found |-> 0] :
        i \in {"hci0", "err"}}
    \cup {[info |-> "hci0", start |-> "ok", stop |-> st, peripherals |-> "err", found |-> 0] :
            st \in {"ok", "err"}}
    \cup {[info |-> "hci0", start |-> "ok", stop |-> st, peripherals |-> "ok", found |-> n] :
            st \in {"ok", "err"}, n \in 0..MaxPeripherals}
ScanEnvs ==
    {[manager |-> "err", adapters |-> "ok", list |-> <<>>],
     [manager |-> "ok", adapters |-> "err", list |-> <<>>]}
    \cup {[manager |-> "ok", adapters |-> "ok", list |-> l] :
            l \in SeqsUpTo(AdapterAnswers, MaxAdapters)}

DisplayEnvs ==
    {[all |-> "err", displays |-> <<>>]}
    \cup {[all |-> "ok", displays |-> d] :
            d \in SeqsUpTo([name : {"eDP-1"}, rotation : {0, 90}], MaxDisplays)}

NetworkEnvs ==
    {[show |-> "err", interfaces |-> <<>>]}
    \cup {[show |-> "ok", interfaces |-> l] :
            l \in SeqsUpTo([name : {"eth0"}, addrs : 0..1], MaxInterfaces)}

UsbEnvs ==
    {[list_devices |-> "err", devices |-> <<>>]}
    \cup {[list_devices |-> "ok", devices |-> l] :
            l \in SeqsUpTo([product : {"", "Mouse"}], MaxUsbDevices)}

\* each enumerated battery can be read ("ok") or not ("err")
BatteryEnvs ==
    {[manager |-> "err", batteries |-> "ok", list |-> <<>>],
     [manager |-> "ok", batteries |-> "err", list |-> <<>>]}
    \cup {[manager |-> "ok", batteries |-> "ok", list |-> l] :
            l \in SeqsUpTo({"ok", "err"}, MaxBatteries)}

\* a revision walk: short walks of readable and unreadable items, and
\* longer walks of readable commits
WalkItems == {"ok", "bad_oid", "no_commit"}
LogEnv(d, h, t, r, p, w) ==
    [discover |-> d, head |-> h, target |-> t, revwalk |-> r, push |-> p, walk |-> w]
LogEnvs ==
    {LogEnv("err", "ok", "ok", "ok", "ok", <<>>), LogEnv("ok", "err", "ok", "ok", "ok", <<>>),
     LogEnv("ok", "ok", "none", "ok", "ok", <<>>), LogEnv("ok", "ok", "ok", "err", "ok", <<>>),
     LogEnv("ok", "ok", "ok", "ok", "err", <<>>),
     LogEnv("cwd_only", "ok", "ok", "ok", "ok", <<"ok">>)}
    \cup {LogEnv("ok", "ok", "ok", "ok", "ok", w) : w \in SeqsUpTo(WalkItems, MaxCommits)}
    \cup {LogEnv("ok", "ok", "ok", "ok", "ok", [i \in 1..k |-> "ok"]) :
            k \in (MaxCommits + 1)..MaxWalk}

SystemEnvs ==
    {[cpus |-> c, total_mem |-> m.total, used_mem |-> m.used, disks |-> d,
      uptime |-> u, overflow_checks |-> oc] :
        c \in 0..MaxCpus, m \in [total : {0, 4}, used : {0, 1}],
        d \in SeqsUpTo([total : {1, U64Max}, free : {0, 1}], MaxDisks + 1),
        u \in {59, 3660}, oc \in BOOLEAN}

NoEnv == [none |-> TRUE]

----------------------------------------------------------------------------
(* The state machine                                                       *)

NoCall == [server |-> "", name |-> "", args |-> NoArgs]

NotStarted ==
    [binary |-> "", pc |-> "none", service |-> "none", transport |-> "none",
     received |-> 0, answered |-> 0]

NoRuntime == [workers |-> 0, tasks |-> <<>>]

NotListed == [server |-> "", tools |-> <<>>]

Init ==
    /\ call = NoCall
    /\ env = NoEnv
    /\ outcome = NoOutcome
    /\ invoked = FALSE
    /\ registry = [server \in Servers |-> new(server)]
    /\ listed = NotListed
    /\ served = FALSE
    /\ process = NotStarted
    /\ runtime = NoRuntime

Ready == outcome.kind = "None" /\ listed = NotListed

\* the servers that register the tool
ServersOf(name) == {srv \in Servers : name \in Range(tool_router(srv))}

\* the answers the collaborators may give to one call (a call whose
\* arguments are rejected consults none: the answers of `sample` stand for all)
Answers(server, name, args, envs, sample) ==
    IF Deserialize(Schema(server, name), args).ok THEN envs ELSE sample

\* faulty variant: a call that fails unregisters the last tool of the server
Serve_unregisters(server, name, args, e) ==
    LET r == call_tool(server, name, args, e)
    IN  /\ call' = [server |-> server, name |-> name, args |-> args]
        /\ env' = e
        /\ outcome' = r.outcome
        /\ invoked' = r.invoked
        /\ registry' = IF r.outcome.kind = "Failure"
                       THEN [registry EXCEPT ![server] =
                                SubSeq(registry[server], 1, Len(registry[server]) - 1)]
                       ELSE registry
        /\ UNCHANGED <<listed, served>>
        /\ UNCHANGED process_vars

\* one call, from the request to its outcome; the handlers take &self and
\* leave the server's tool_router as it is
Serve(server, name, args, e) ==
    LET r == call_tool(server, name, args, e)
    IN  /\ call' = [server |-> server, name |-> name, args |-> args]
        /\ env' = e
        /\ outcome' = r.outcome
        /\ invoked' = r.invoked
        /\ UNCHANGED <<registry, listed, served>>
        /\ UNCHANGED process_vars

GetWeather ==
    /\ Ready
    /\ \E server \in ServersOf("get_weather") : \E args \in LocationArgs :
        \E e \in Answers(server, "get_weather", args, WeatherEnvs, WeatherEnvs) :
            Serve(server, "get_weather", args, e)

GetForecast ==
    /\ Ready
    /\ \E server \in ServersOf("get_forecast") : \E args \in ForecastArgs :
        \E e \in Answers(server, "get_forecast", args, ForecastEnvs,
                         {x \in ForecastEnvs : Len(x.data.weather) <= 1}) :
            Serve(server, "get_forecast", args, e)

GetStatus ==
    /\ Ready
    /\ \E server \in ServersOf("get_status") : \E args \in PathArgs :
        \E e \in Answers(server, "get_status", args, StatusEnvs,
                         {x \in StatusEnvs : Len(x.entries) = 0}) :
            Serve(server, "get_status", args, e)

GetDiskInfo ==
    /\ Ready
    /\ \E server \in ServersOf("get_disk_info") : \E args \in NoParamArgs : \E e \in DiskEnvs :
        Serve(server, "get_disk_info", args, e)

GetTopProcesses ==
    /\ Ready
    /\ \E server \in ServersOf("get_top_processes") : \E args \in TopArgs :
        \E e \in Answers(server, "get_top_processes", args, TopEnvs,
                         {x \in TopEnvs : Len(x.processes) <= 1}) :
            Serve(server, "get_top_processes", args, e)

FindProcess ==
    /\ Ready
    /\ \E server \in ServersOf("find_process") : \E args \in FindArgs :
        \E e \in Answers(server, "find_process", args, FindEnvs,
                         {x \in FindEnvs : Len(x.processes) <= 1}) :
            Serve(server, "find_process", args, e)

GetProcessDetails ==
    /\ Ready
    /\ \E server \in ServersOf("get_process_details") : \E args \in PidArgs :
        \E e \in Answers(server, "get_process_details", args, DetailsEnvs,
                         {x \in DetailsEnvs : Len(x.cmd) = 0}) :
            Serve(server, "get_process_details", args, e)

IsIdleFor ==
    /\ Ready
    /\ \E server \in ServersOf("is_idle_for") : \E args \in ThresholdArgs :
        \E e \in Answers(server, "is_idle_for", args, IdleEnvs, IdleEnvs) :
            Serve(server, "is_idle_for", args, e)

ScanBleDevices ==
    /\ Ready
    /\ \E server \in ServersOf("scan_ble_devices") : \E args \in NoParamArgs : \E e \in ScanEnvs :
        Serve(server, "scan_ble_devices", args, e)

GetDisplayInfo ==
    /\ Ready
    /\ \E server \in ServersOf("get_display_info") : \E args \in NoParamArgs : \E e \in DisplayEnvs :
        Serve(server, "get_display_info", args, e)

GetInterfaces ==
    /\ Ready
    /\ \E server \in ServersOf("get_interfaces") : \E args \in NoParamArgs : \E e \in NetworkEnvs :
        Serve(server, "get_interfaces", args, e)

GetUsbDevices ==
    /\ Ready
    /\ \E server \in ServersOf("get_usb_devices") : \E args \in NoParamArgs : \E e \in UsbEnvs :
        Serve(server, "get_usb_devices", args, e)

GetBatteryStatus ==
    /\ Ready
    /\ \E server \in ServersOf("get_battery_status") : \E args \in NoParamArgs : \E e \in BatteryEnvs :
        Serve(server, "get_battery_status", args, e)

GetIdleTime ==
    /\ Ready
    /\ \E server \in ServersOf("get_idle_time") : \E args \in NoParamArgs : \E e \in IdleTimeEnvs :
        Serve(server, "get_idle_time", args, e)

GetLog ==
    /\ Ready
    /\ \E server \in ServersOf("get_log") : \E args \in PathArgs :
        \E e \in Answers(server, "get_log", args, LogEnvs, {x \in LogEnvs : Len(x.walk) = 0}) :
            Serve(server, "get_log", args, e)

GetSystemInfo ==
    /\ Ready
    /\ \E server \in ServersOf("get_system_info") : \E args \in NoParamArgs : \E e \in SystemEnvs :
        Serve(server, "get_system_info", args, e)

ListProcesses ==
    /\ Ready
    /\ \E server \in ServersOf("list_processes") : \E args \in NoParamArgs : \E e \in ListEnvs :
        Serve(server, "list_processes", args, e)

\* a call naming a tool the server does not register
CallNames ==
    UNION {Range(tool_router(srv)) : srv \in Servers} \cup {"nonexistent", "echo"}
UnknownArgs ==
    {NoArgs, Obj1("location", JStr("Paris")), Obj1("pid", JStr("1")),
     Obj1("threshold_seconds", JInt(IdleDocDefault)), Obj1("msg", JStr("hi"))}

UnknownTool ==
    /\ Ready
    /\ \E server \in Servers : \E name \in CallNames \ Range(tool_router(server)) :
        \E args \in UnknownArgs :
            Serve(server, name, args, NoEnv)

\* the outcome is handed to the transport; the server awaits the next call
Respond ==
    /\ outcome.kind \in {"Success", "Failure"} \/ listed # NotListed
    /\ call' = NoCall
    /\ env' = NoEnv
    /\ outcome' = NoOutcome
    /\ invoked' = FALSE
    /\ listed' = NotListed
    /\ served' = (served \/ outcome.kind # "None")
    /\ UNCHANGED registry
    /\ UNCHANGED process_vars

\* listTools(): the descriptors of the server's registry
ListTools ==
    /\ Ready
    /\ \E server \in Servers :
        listed' = [server |-> server, tools |-> list_all(registry[server])]
    /\ UNCHANGED <<call, env, outcome, invoked, registry, served>>
    /\ UNCHANGED process_vars

Next ==
    \/ GetWeather
    \/ GetForecast
    \/ GetStatus
    \/ GetDiskInfo
    \/ GetTopProcesses
    \/ FindProcess
    \/ GetProcessDetails
    \/ IsIdleFor
    \/ ScanBleDevices
    \/ GetDisplayInfo
    \/ GetInterfaces
    \/ GetUsbDevices
    \/ GetBatteryStatus
    \/ GetIdleTime
    \/ GetLog
    \/ GetSystemInfo
    \/ ListProcesses
    \/ UnknownTool
    \/ ListTools
    \/ Respond

Spec == Init /\ [][Next]_vars

----------------------------------------------------------------------------
(* The server binaries: fn main of the unified server and of the crates    *)

call_vars == <<call, env, outcome, invoked, registry, listed, served>>
main_vars == <<call_vars, runtime>>

\* main up to `let transport = stdio()`: tracing is set up, the server is
\* constructed and the transport is opened
Start ==
    /\ process.pc = "none"
    /\ \E binary \in Servers :
        process' = [process EXCEPT !.binary = binary, !.pc = "serve", !.transport = "open"]
    /\ UNCHANGED main_vars

\* `server.serve(transport).await?` completes: the service has been
\* initialized and runs on its own task. The crates bind the running service
\* (`let service = ...`) and go on to wait for it; the unified main uses the
\* call as a statement and goes on to `Ok(())`
serve ==
    /\ process.pc = "serve"
    /\ process.transport = "open"
    /\ process' = [process EXCEPT !.service = "running",
                                  !.pc = IF process.binary = "SensorsServer"
                                         THEN "return" ELSE "waiting"]
    /\ UNCHANGED main_vars

\* `server.serve(transport).await?` fails because the transport was closed
\* before the service was initialized: main returns the error
serve_fails ==
    /\ process.pc = "serve"
    /\ process.transport = "closed"
    /\ process' = [process EXCEPT !.pc = "returned"]
    /\ UNCHANGED main_vars

\* `service.waiting().await?` completes once the service has stopped; main
\* logs and returns
waiting ==
    /\ process.pc = "waiting"
    /\ process.service = "stopped"
    /\ process' = [process EXCEPT !.pc = "returned"]
    /\ UNCHANGED main_vars

\* `Ok(())` of the unified main: main returns, the runtime of #[tokio::main]
\* is dropped and the service's task ends with the process
main_returns ==
    /\ process.pc = "return"
    /\ process' = [process EXCEPT !.pc = "returned", !.service = "stopped"]
    /\ UNCHANGED main_vars

\* the client sends a request over the open transport
Receive ==
    /\ process.transport = "open"
    /\ process.service # "none"
    /\ process.received < MaxRequests
    /\ process' = [process EXCEPT !.received = @ + 1]
    /\ UNCHANGED main_vars

\* the running service answers a request it has received
Answer ==
    /\ process.service = "running"
    /\ process.answered < process.received
    /\ process' = [process EXCEPT !.answered = @ + 1]
    /\ UNCHANGED main_vars

\* the client closes the transport: a running service stops
CloseTransport ==
    /\ process.transport = "open"
    /\ process' = [process EXCEPT !.transport = "closed",
                                  !.service = IF @ = "running" THEN "stopped" ELSE @]
    /\ UNCHANGED main_vars

MainNext ==
    \/ Start
    \/ serve
    \/ serve_fails
    \/ waiting
    \/ main_returns
    \/ Receive
    \/ Answer
    \/ CloseTransport

MainSpec == Init /\ [][MainNext]_vars

----------------------------------------------------------------------------
(* Concurrent calls: the handlers as tasks of the runtime                  *)

\* what a handler waits on before it formats its answer: a std::thread::sleep
\* keeps the worker thread, an .await on the HTTP request or on
\* tokio::time::sleep gives it back
wait_kind(name) ==
    CASE name \in {"get_system_info", "get_top_processes", "find_process",
                   "get_process_details", "list_processes"} -> "thread_sleep"
      [] name \in {"get_weather", "get_forecast", "scan_ble_devices"} -> "await"
      [] OTHER -> "none"

\* the calls drawn for concurrent runs
ConcurrentCalls ==
    {[server |-> "SensorsServer", name |-> "get_top_processes", args |-> NoArgs,
      env |-> [processes |-> <<>>]],
     [server |-> "SysinfoServer", name |-> "list_processes", args |-> NoArgs,
      env |-> [processes |-> <<[pid |-> 1, cpu |-> 1, mem |-> 0, name |-> "init"]>>]],
     [server |-> "SensorsServer", name |-> "scan_ble_devices", args |-> NoArgs,
      env |-> [manager |-> "ok", adapters |-> "ok", list |-> <<>>]],
     [server |-> "SensorsServer", name |-> "get_idle_time", args |-> NoArgs,
      env |-> [idle |-> "ok", seconds |-> 61]],
     [server |-> "SensorsServer", name |-> "find_process", args |-> NoArgs,
      env |-> [processes |-> <<>>]]}
    \cup {[server |-> "SensorsServer", name |-> "get_weather",
           args |-> Obj1("location", JStr("Paris")), env |-> e] :
            e \in {x \in HttpErrors : x.http # "parse_err"}}

Task(c, pc, result) ==
    [server |-> c.server, name |-> c.name, args |-> c.args, env |-> c.env,
     pc |-> pc, outcome |-> result]

\* the worker threads that are kept by a handler in std::thread::sleep
Kept == {t \in 1..Len(runtime.tasks) : runtime.tasks[t].pc = "thread_sleep"}
FreeWorker == Cardinality(Kept) < runtime.workers

\* the answer of a call served by the server whose tool_router is the registry
answer(t) ==
    IF \E i \in 1..Len(registry[t.server]) : registry[t.server][i].name = t.name
    THEN call_tool(t.server, t.name, t.args, t.env).outcome
    ELSE Failure("NotFound", Msg("unknown tool", t.name))

\* #[tokio::main]: the runtime is built with its worker threads
build_runtime ==
    /\ runtime.workers = 0
    /\ \E n \in 1..MaxWorkers : runtime' = [runtime EXCEPT !.workers = n]
    /\ UNCHANGED <<call_vars, process>>

\* a request arrives and its call becomes a task of the runtime
Submit ==
    /\ runtime.workers > 0
    /\ Len(runtime.tasks) < MaxInFlight
    /\ \E c \in ConcurrentCalls :
        runtime' = [runtime EXCEPT !.tasks = Append(@, Task(c, "submitted", NoOutcome))]
    /\ UNCHANGED <<call_vars, process>>

\* a free worker thread runs a submitted call up to its wait, or to its end
\* when the call is rejected before its handler runs or its handler does not
\* wait
Poll ==
    /\ FreeWorker
    /\ \E t \in 1..Len(runtime.tasks) :
        LET task == runtime.tasks[t]
            runs == call_tool(task.server, task.name, task.args, task.env).invoked
        IN  /\ task.pc = "submitted"
            /\ runtime' = [runtime EXCEPT !.tasks[t] =
                    IF runs /\ wait_kind(task.name) # "none"
                    THEN Task(task, wait_kind(task.name), NoOutcome)
                    ELSE Task(task, "done", answer(task))]
    /\ UNCHANGED <<call_vars, process>>

\* faulty variant: a call that ends in a failure unregisters the tool that
\* comes last in the server's tool_router
Wake_unregisters ==
    /\ \E t \in 1..Len(runtime.tasks) :
        LET task == runtime.tasks[t]
        IN  /\ \/ task.pc = "thread_sleep"
               \/ task.pc = "await" /\ FreeWorker
            /\ runtime' = [runtime EXCEPT !.tasks[t] = Task(task, "done", answer(task))]
            /\ registry' = IF answer(task).kind = "Failure"
                           THEN [registry EXCEPT ![task.server] =
                                    SubSeq(@, 1, Len(@) - 1)]
                           ELSE registry
    /\ UNCHANGED <<call, env, outcome, invoked, listed, served, process>>

\* the wait of a call is over: its own thread goes on after a
\* std::thread::sleep, a free worker thread goes on after an .await; the
\* handler formats its answer from what its collaborators returned
Wake ==
    /\ \E t \in 1..Len(runtime.tasks) :
        LET task == runtime.tasks[t]
        IN  /\ \/ task.pc = "thread_sleep"
               \/ task.pc = "await" /\ FreeWorker
            /\ runtime' = [runtime EXCEPT !.tasks[t] = Task(task, "done", answer(task))]
    /\ UNCHANGED <<call_vars, process>>

\* the answers have been sent: the finished calls are forgotten
Drain ==
    /\ Len(runtime.tasks) > 0
    /\ \A t \in 1..Len(runtime.tasks) : runtime.tasks[t].pc = "done"
    /\ runtime' = [runtime EXCEPT !.tasks = <<>>]
    /\ UNCHANGED <<call_vars, process>>

ConcurrentNext ==
    \/ build_runtime
    \/ Submit
    \/ Poll
    \/ Wake
    \/ Drain

ConcurrentSpec == Init /\ [][ConcurrentNext]_vars

----------------------------------------------------------------------------
(* Properties                                                              *)

Called(name) == outcome.kind # "None" /\ call.name = name
Succeeded(name) == Called(name) /\ outcome.kind = "Success"
Value == outcome.content[1].value
Given(f) == f \in DOMAIN call.args /\ call.args[f].t = "int"

\* C1: get_forecast clamps the requested day count d to [1,3]: the effective
\* day count is max(1, min(d, 3)) for every requested d in 0..255.
C1_DaysClampedToOneThree ==
    (Succeeded("get_forecast") /\ Given("days"))
        => Value.days = Max(1, Min(call.args["days"].n, 3))

\* C2 as claimed: every changed path reported by the repository is placed in
\* exactly one of the buckets staged, modified, untracked.
InBucket(bucket, path) == \E i \in 1..Len(bucket) : bucket[i] = path
BucketsHolding(b, path) ==
    {x \in {"staged", "modified", "untracked"} : InBucket(b[x], path)}

C2_ExactlyOneBucket ==
    (Succeeded("get_status") /\ env.statuses = "ok")
        => \A i \in 1..Len(env.entries) :
               Cardinality(BucketsHolding(Value.buckets, env.entries[i].path)) = 1

\* C2 as amended: each bucket is decided on its own from the entry's flags.
\* A path is in staged iff its index side is new, modified or deleted, in
\* modified iff its worktree side is modified or deleted, in untracked iff
\* its worktree side is new; so a path with index and worktree changes is in
\* two buckets and a path with none of these flags is in none.  No bucket
\* holds a path twice and each bucket keeps the status order.
NoRepeat(bucket) ==
    \A i, j \in 1..Len(bucket) : i < j => bucket[i] < bucket[j]

C2_BucketsFollowFlags ==
    (Succeeded("get_status") /\ env.statuses = "ok")
        => /\ \A i \in 1..Len(env.entries) :
                LET en == env.entries[i]
                IN  /\ InBucket(Value.buckets.staged, en.path)
                        <=> en.status \cap {"INDEX_NEW", "INDEX_MODIFIED", "INDEX_DELETED"} # {}
                    /\ InBucket(Value.buckets.modified, en.path)
                        <=> en.status \cap {"WT_MODIFIED", "WT_DELETED"} # {}
                    /\ InBucket(Value.buckets.untracked, en.path)
                        <=> "WT_NEW" \in en.status
           /\ \A x \in {"staged", "modified", "untracked"} :
                /\ NoRepeat(Value.buckets[x])
                /\ \A k \in 1..Len(Value.buckets[x]) :
                       Value.buckets[x][k] \in 1..Len(env.entries)

\* C2 witness: a path staged and modified again in the worktree is listed in
\* both buckets, next to a conflicted path that is listed in none.
C2_Witness ==
    /\ Succeeded("get_status")
    /\ env.statuses = "ok"
    /\ Len(env.entries) = 2
    /\ env.entries[1].status = {"INDEX_MODIFIED", "WT_MODIFIED"}
    /\ env.entries[2].status = {"CONFLICTED"}
    /\ Value.buckets.staged = <<1>>
    /\ Value.buckets.modified = <<1>>
    /\ Value.buckets.untracked = <<>>

\* C3: every tool call ends in a structured outcome, Success or Failure; no
\* panic or other unhandled failure escapes the call, also for a disk whose
\* available space exceeds its total space and for a command line of more
\* than 200 bytes with multi-byte characters.
C3_StructuredOutcome == outcome.kind \in {"None", "Success", "Failure"}

\* the collaborator operations a scan reaches: adapter i is reached unless
\* an earlier adapter's peripherals() failed after a started scan
Reached(i) ==
    /\ env.manager = "ok"
    /\ env.adapters = "ok"
    /\ i \in 1..Len(env.list)
    /\ \A j \in 1..(i - 1) : ~(env.list[j].start = "ok" /\ env.list[j].peripherals = "err")

\* the path the call asks the repository of
CallPath ==
    IF "path" \in DOMAIN call.args /\ call.args["path"].t = "str"
    THEN call.args["path"].s ELSE current_dir

\* an error of an operation whose result the handler propagates with `?`
PropagatedError ==
    CASE call.name \in {"get_weather", "get_forecast"} -> env.http # "ok"
      [] call.name = "get_status" -> ~discover(CallPath, env)
      [] call.name = "is_idle_for" -> env.idle = "err"
      [] call.name = "scan_ble_devices" ->
            \/ env.manager = "err"
            \/ env.manager = "ok" /\ env.adapters = "err"
            \/ \E i \in 1..Len(env.list) :
                   Reached(i) /\ env.list[i].start = "ok" /\ env.list[i].peripherals = "err"
      [] OTHER -> FALSE

\* an error of an operation whose result the handler matches on or drops
AbsorbedError ==
    CASE call.name = "get_status" ->
            /\ discover(CallPath, env)
            /\ \/ env.head = "err"
               \/ env.head = "ok" /\ env.peel = "err"
               \/ env.statuses = "err"
      [] call.name = "scan_ble_devices" ->
            \E i \in 1..Len(env.list) :
                /\ Reached(i)
                /\ \/ env.list[i].info = "err"
                   \/ env.list[i].start = "err"
                   \/ env.list[i].start = "ok" /\ env.list[i].stop = "err"
      [] OTHER -> FALSE

InternalFailure == outcome.kind = "Failure" /\ outcome.code = "Internal"

C5_PercentInRange ==
    Succeeded("get_disk_info")
        => \A i \in 1..Len(Value.disks) :
               /\ Value.disks[i].percent \in 0..100
               /\ env.disks[i].total = 0 => Value.disks[i].percent = 0

\* C6: for total > 0 and available <= total the displayed percentage is
\* (total - available) / total * 100 rounded to the nearest integer.
RoundNearest(n, d) == (2 * n + d) \div (2 * d)

C6_PercentRoundedToNearest ==
    Succeeded("get_disk_info")
        => \A i \in 1..Len(Value.disks) :
               (env.disks[i].total > 0 /\ env.disks[i].free <= env.disks[i].total)
                   => Value.disks[i].percent =
                          RoundNearest((env.disks[i].total - env.disks[i].free) * 100,
                                       env.disks[i].total)

Registered == call.name \in Range(tool_router(call.server))

\* C7: get_top_processes with count N and sort key cpu or memory lists
\* exactly min(N, number of processes) rows, which are the processes with
\* the largest values of the key, in non-increasing order of the key.
C7_TopProcessesAreLargest ==
    (/\ Succeeded("get_top_processes")
     /\ Given("count")
     /\ "sort_by" \in DOMAIN call.args
     /\ call.args["sort_by"].s \in {"cpu", "memory"})
        => LET rows == Value.rows
               procs == env.processes
               key(p) == IF call.args["sort_by"].s = "memory" THEN p.mem ELSE p.cpu
           IN  /\ Len(rows) = Min(call.args["count"].n, Len(procs))
               /\ \A i \in 1..Len(rows) : \E k \in 1..Len(procs) : procs[k] = rows[i]
               /\ \A i, j \in 1..Len(rows) :
                      i < j => /\ rows[i].pid # rows[j].pid
                               /\ key(rows[i]) >= key(rows[j])
               /\ \A k \in 1..Len(procs) :
                      (\A i \in 1..Len(rows) : rows[i].pid # procs[k].pid)
                          => \A i \in 1..Len(rows) : key(rows[i]) >= key(procs[k])

\* C7 witness: the top 1 by memory of two processes is the second process
\* of the snapshot, which has the smaller cpu usage.
C7_Witness ==
    /\ Succeeded("get_top_processes")
    /\ Given("count")
    /\ call.args["count"].n = 1
    /\ "sort_by" \in DOMAIN call.args
    /\ call.args["sort_by"].s = "memory"
    /\ Len(env.processes) = 2
    /\ env.processes[1].cpu > env.processes[2].cpu
    /\ env.processes[1].mem < env.processes[2].mem
    /\ Value.rows = <<env.processes[2]>>

RequiredField(name) ==
    CASE name \in {"get_weather", "get_forecast"} -> "location"
      [] name = "is_idle_for" -> "threshold_seconds"
      [] name = "find_process" -> "name"
      [] name = "get_process_details" -> "pid"
      [] OTHER -> ""

C9_UnknownToolIsNotFound ==
    (outcome.kind # "None" /\ ~Registered)
        => /\ outcome.kind = "Failure"
           /\ outcome.code = "NotFound"
           /\ ~invoked

\* C9 witness: get_process_details, which the unified server does not
\* register, called there with a pid of the wrong type.
C9_Witness ==
    /\ Called("get_process_details")
    /\ call.server = "SensorsServer"
    /\ "pid" \in DOMAIN call.args
    /\ call.args["pid"].t = "str"
    /\ outcome.kind = "Failure"
    /\ outcome.code = "NotFound"

\* C10: is_idle_for called without threshold_seconds uses a threshold of 300
\* seconds: the call succeeds and reports 'Is idle: YES' iff the measured
\* idle seconds are at least 300.
C10_ThresholdDefaultsTo300 ==
    (/\ Called("is_idle_for")
     /\ Registered
     /\ "threshold_seconds" \notin DOMAIN call.args
     /\ env.idle = "ok")
        => /\ outcome.kind = "Success"
           /\ Value.threshold = IdleDocDefault
           /\ Value.is_idle = "YES" <=> env.seconds >= IdleDocDefault

\* the raw count argument is absent, null or a non-negative integer
CountParses ==
    \/ "count" \notin DOMAIN call.args
    \/ call.args["count"].t = "null"
    \/ call.args["count"].t = "int" /\ call.args["count"].n >= 0

RequestedCount == IF Given("count") /\ CountParses THEN call.args["count"].n ELSE TopDefaultCount

SortedByCpu(rows) == \A i, j \in 1..Len(rows) : i < j => rows[i].cpu >= rows[j].cpu

\* C11 as claimed: get_top_processes never fails validation because of the
\* values of sort_by or count: an unrecognised sort_by is treated as "cpu"
\* and a count that is not a non-negative integer (a string, a negative
\* number, a fraction) is treated as 10; the call returns Success.
C11_LenientSortAndCount ==
    (Called("get_top_processes") /\ Registered)
        => /\ outcome.kind = "Success"
           /\ Value.count = RequestedCount
           /\ Len(Value.rows) = Min(RequestedCount, Len(env.processes))

\* C11 as amended: a sort_by string that is not "memory" or "mem" is treated
\* as "cpu" and the call returns Success; an absent or null count is 10; a
\* count that is not a non-negative integer (a string, a negative number, a
\* fraction) fails validation with Failure(InvalidArgument) naming count and
\* the tool body is not invoked.
C11_SortLenientCountStrict ==
    (Called("get_top_processes") /\ Registered)
        => IF CountParses
           THEN /\ outcome.kind = "Success"
                /\ Value.count = RequestedCount
                /\ Len(Value.rows) = Min(RequestedCount, Len(env.processes))
                /\ ("sort_by" \in DOMAIN call.args => Value.sort_by = call.args["sort_by"].s)
                /\ Value.sort_by \notin {"memory", "mem"} => SortedByCpu(Value.rows)
           ELSE /\ outcome.kind = "Failure"
                /\ outcome.code = "InvalidArgument"
                /\ outcome.message.field = "count"
                /\ ~invoked

\* C11 witness: a call with an unrecognised sort key and a count given as a
\* string is rejected before the tool body runs.
C11_Witness ==
    /\ Called("get_top_processes")
    /\ "count" \in DOMAIN call.args
    /\ call.args["count"].t = "str"
    /\ "sort_by" \in DOMAIN call.args
    /\ call.args["sort_by"].s = "bogus"
    /\ outcome.kind = "Failure"
    /\ outcome.code = "InvalidArgument"
    /\ ~invoked

BucketLabel(x) ==
    CASE x = "staged" -> "Staged" [] x = "modified" -> "Modified" [] OTHER -> "Untracked"

LinesOf(kind, label) == SelectSeq(Value.lines, LAMBDA l : l.kind = kind /\ l.label = label)

\* C13: in get_status a non-empty bucket of n paths shows one header with
\* the count n, lists exactly the first min(n, 5) paths in status order, and
\* has an '... and N more' line iff n > 5, with N = n - 5; an empty bucket
\* produces no lines; 'Clean - nothing to commit' appears iff all three
\* buckets are empty.
C13_BucketDisplayCappedAtFive ==
    (Succeeded("get_status") /\ env.statuses = "ok")
        => /\ \A x \in {"staged", "modified", "untracked"} :
                LET b == Value.buckets[x]
                    n == Len(b)
                    headers == LinesOf("header", BucketLabel(x))
                    paths == LinesOf("path", BucketLabel(x))
                    more == LinesOf("more", BucketLabel(x))
                IN  /\ Len(headers) = (IF n > 0 THEN 1 ELSE 0)
                    /\ n > 0 => headers[1].n = n
                    /\ Len(paths) = Min(n, 5)
                    /\ \A i \in 1..Len(paths) : paths[i].path = b[i]
                    /\ Len(more) = (IF n > 5 THEN 1 ELSE 0)
                    /\ n > 5 => more[1].n = n - 5
           /\ Len(LinesOf("clean", "")) = 1
                <=> \A x \in {"staged", "modified", "untracked"} : Len(Value.buckets[x]) = 0
           /\ Len(LinesOf("clean", "")) <= 1

\* C13 witness: six untracked paths are shown as a header counting 6, the
\* first five paths and '... and 1 more'.
C13_Witness ==
    /\ Succeeded("get_status")
    /\ env.statuses = "ok"
    /\ Value.buckets.untracked = <<1, 2, 3, 4, 5, 6>>
    /\ LinesOf("header", "Untracked") = <<Line("header", "Untracked", 6, 0)>>
    /\ Len(LinesOf("path", "Untracked")) = 5
    /\ LinesOf("more", "Untracked") = <<Line("more", "Untracked", 1, 0)>>

\* C14: in get_forecast every displayed day with h hourly records shows
\* exactly the records at the 0-based indices 0, 3, 6, ... in order: that is
\* ceil(h/3) lines, and no record at an index not divisible by 3.
C14_HourlyStrideOfThree ==
    Succeeded("get_forecast")
        => \A i \in 1..Len(Value.sections) :
               LET hourly == env.data.weather[i].hourly
                   hours == Value.sections[i].hours
               IN  /\ Len(hours) = (Len(hourly) + 2) \div 3
                   /\ \A k \in 1..Len(hours) :
                          /\ hours[k] = hourly[3 * (k - 1) + 1]
                          /\ hours[k] % 3 = 0

\* C14 witness: a displayed day with 8 hourly records shows the records at
\* indices 0, 3 and 6.
C14_Witness ==
    /\ Succeeded("get_forecast")
    /\ Len(Value.sections) >= 1
    /\ Len(env.data.weather[1].hourly) = 8
    /\ Value.sections[1].hours = <<0, 3, 6>>

\* the provider query of the call succeeded and returned nothing
NothingFound ==
    CASE call.name = "get_battery_status" ->
            env.manager = "ok" /\ env.batteries = "ok" /\ Len(env.list) = 0
      [] call.name = "get_display_info" -> env.all = "ok" /\ Len(env.displays) = 0
      [] call.name = "get_interfaces" -> env.show = "ok" /\ Len(env.interfaces) = 0
      [] call.name = "get_usb_devices" -> env.list_devices = "ok" /\ Len(env.devices) = 0
      [] call.name = "scan_ble_devices" ->
            env.manager = "ok" /\ env.adapters = "ok" /\ Len(env.list) = 0
      [] OTHER -> FALSE

NothingFoundLine ==
    IF call.name = "scan_ble_devices" THEN "no_adapters" ELSE "none"

\* C15: when the provider query succeeds but returns nothing (no batteries,
\* no displays, no network interfaces, no USB devices, no Bluetooth
\* adapters) the tool returns Success with a text saying that nothing was
\* found, never Failure.
C15_NothingFoundIsSuccess ==
    (invoked /\ NothingFound)
        => /\ outcome.kind = "Success"
           /\ Len(Value.lines) = 1
           /\ Value.lines[1].kind = NothingFoundLine

\* C15 witness: the battery crate's server finds no batteries and returns
\* Success with 'No batteries detected.'
C15_Witness ==
    /\ Succeeded("get_battery_status")
    /\ call.server = "BatteryServer"
    /\ env.list = <<>>
    /\ Value.lines = <<Line("none", "No batteries detected.", 0, 0)>>

\* C16: every Success outcome of every tool, on every code path including
\* the early returns, carries exactly one content block, of kind Text.
C16_SuccessIsOneTextBlock ==
    outcome.kind = "Success"
        => /\ Len(outcome.content) = 1
           /\ outcome.content[1].kind = "Text"

\* C16 witness: the early return of scan_ble_devices for an empty adapter
\* list carries its one Text block.
C16_Witness ==
    /\ Succeeded("scan_ble_devices")
    /\ env.list = <<>>
    /\ Len(outcome.content) = 1
    /\ outcome.content[1].kind = "Text"
    /\ Value.title = "Bluetooth Status"

\* the fields of the call's argument object that the tool's parameter
\* struct declares
Declared == {Schema(call.server, call.name)[i].name :
                i \in 1..Len(Schema(call.server, call.name))}
Stripped == [f \in DOMAIN call.args \cap Declared |-> call.args[f]]

\* C17: argument fields that the tool's parameter struct does not declare
\* are ignored: a call whose declared fields are valid and which carries an
\* extra field has the outcome of the same call without the extra field,
\* and is never rejected with Failure(InvalidArgument).
C17_ExtraFieldsIgnored ==
    (/\ outcome.kind # "None"
     /\ Registered
     /\ DOMAIN call.args # DOMAIN Stripped
     /\ Deserialize(Schema(call.server, call.name), Stripped).ok)
        => /\ outcome = call_tool(call.server, call.name, Stripped, env).outcome
           /\ invoked
           /\ ~(outcome.kind = "Failure" /\ outcome.code = "InvalidArgument")

\* C17 witness: get_status with a path and an undeclared field succeeds.
C17_Witness ==
    /\ Succeeded("get_status")
    /\ call.server = "GitServer"
    /\ DOMAIN call.args = {"path", "extra"}
    /\ call.args["extra"].t = "str"
    /\ env.statuses = "ok"
    /\ Len(env.entries) = 1

\* the documented defaults of the optional parameters
Defaults ==
    {[tool |-> "get_top_processes", field |-> "count", value |-> JInt(10)],
     [tool |-> "get_top_processes", field |-> "sort_by", value |-> JStr("cpu")],
     [tool |-> "get_forecast", field |-> "days", value |-> JInt(3)],
     [tool |-> "get_status", field |-> "path", value |-> JStr(".")],
     [tool |-> "get_log", field |-> "path", value |-> JStr(".")]}

WithField(args, f, v) == [x \in DOMAIN args \cup {f} |-> IF x = f THEN v ELSE args[x]]

\* C18: a call that omits an optional parameter has the outcome of the same
\* call with the documented default passed: count = 10 and sort_by = "cpu"
\* for get_top_processes, days = 3 for get_forecast, path = the current
\* directory for get_status and get_log.
C18_OmittedTakeDefaults ==
    \A d \in Defaults :
        (Called(d.tool) /\ Registered /\ d.field \notin DOMAIN call.args)
            => outcome = call_tool(call.server, call.name,
                                   WithField(call.args, d.field, d.value), env).outcome

\* C18 witness: get_status without a path succeeds where only the current
\* directory is inside a repository.
C18_Witness ==
    /\ Succeeded("get_status")
    /\ "path" \notin DOMAIN call.args
    /\ env.discover = "cwd_only"

Names(tools) == [i \in 1..Len(tools) |-> tools[i].name]

\* C19: tool names are unique within each server's registry: listTools
\* contains exactly one descriptor for each registered tool name (and none
\* for any other name), and every descriptor has a non-empty description.
C19_ToolNamesUnique ==
    /\ \A server \in Servers :
           LET tools == registry[server]
           IN  /\ \A i, j \in 1..Len(tools) : tools[i].name = tools[j].name => i = j
               /\ \A i \in 1..Len(tools) : tools[i].description # ""
    /\ listed # NotListed
        => /\ \A n \in Range(tool_router(listed.server)) :
                  Cardinality({i \in 1..Len(listed.tools) : listed.tools[i].name = n}) = 1
           /\ \A i \in 1..Len(listed.tools) :
                  /\ listed.tools[i].name \in Range(tool_router(listed.server))
                  /\ listed.tools[i].description # ""

\* C19 witness: the unified server lists its 14 tools.
C19_Witness ==
    /\ listed.server = "SensorsServer"
    /\ Len(listed.tools) = 14
    /\ Cardinality(Range(Names(listed.tools))) = 14

\* C20: the registry is read-only after construction: after any sequence of
\* calls, successful or failing, listTools returns the descriptors it
\* returned at startup, in registration order.
C20_RegistryReadOnly ==
    /\ registry = [server \in Servers |-> new(server)]
    /\ listed # NotListed
        => /\ listed.tools = new(listed.server)
           /\ Names(listed.tools) = tool_router(listed.server)

\* C20 witness: the unified server's tools listed after calls were served.
C20_Witness ==
    /\ served
    /\ listed.server = "SensorsServer"
    /\ Names(listed.tools) = SensorsServer_tool_router

\* C23: every tool name registered by a per-sensor server is also registered
\* by the unified server.
C23_UnifiedExposesAllTools ==
    \A server \in Servers :
        \A i \in 1..Len(registry[server]) :
            registry[server][i].name \in Range(Names(registry["SensorsServer"]))

\* C24: list_processes lists all running processes sorted by CPU usage:
\* every process of the snapshot has a row, rows are in non-increasing order
\* of CPU usage, and 'Total processes' equals the snapshot size.
C24_ListsAllProcesses ==
    (call.name = "list_processes" /\ outcome.kind = "Success")
        => LET text == Value
           IN  /\ \A i \in 1..Len(env.processes) :
                      \E r \in 1..Len(text.rows) : text.rows[r].pid = env.processes[i].pid
               /\ SortedByCpu(text.rows)
               /\ text.total = Len(env.processes)

CommitLines == SelectSeq(Value.lines, LAMBDA l : l.kind = "commit")
NoCommitsLine == \E i \in 1..Len(Value.lines) : Value.lines[i].kind = "none"

C29_HeaderCountsSections ==
    Succeeded("get_forecast") => Value.days = Len(Value.sections)

\* the shape the duration text has for a seconds value
DurationShape(s, parts) ==
    /\ Len(parts) \in 1..2
    /\ s < 60 => parts = <<Part("s", s)>>
    /\ (60 <= s /\ s < 3600)
        => /\ parts[1] = Part("m", s \div 60)
           /\ Len(parts) = 1 <=> s % 60 = 0
           /\ Len(parts) = 2 => parts[2] = Part("s", s % 60)
           /\ parts[1].n * 60 + (IF Len(parts) = 2 THEN parts[2].n ELSE 0) = s
    /\ s >= 3600
        => /\ parts[1] = Part("h", s \div 3600)
           /\ Len(parts) = 1 <=> (s % 3600) \div 60 = 0
           /\ Len(parts) = 2 => parts[2] = Part("m", (s % 3600) \div 60)
    /\ \A i \in 1..Len(parts) : parts[i].unit \in {"m", "s"} => parts[i].n < 60

\* C30: format_duration is defined for every seconds value and gives the same
\* text in its three copies: seconds only below a minute; minutes and
\* seconds (seconds omitted iff zero) below an hour; hours and minutes
\* (minutes omitted iff zero) from an hour on; minutes and seconds shown are
\* below 60.
C30_FormatDuration ==
    /\ Succeeded("get_idle_time")
        => /\ DurationShape(env.seconds, Value.formatted)
           /\ IdleServer_format_duration(env.seconds) = SensorsServer_format_duration(env.seconds)
           /\ IdleServer_format_duration(env.seconds) = format_duration(env.seconds)
    /\ Succeeded("get_process_details")
        => DurationShape(env.run_time, Value.running_for)

\* C30 witness: an idle time of more than an hour shown as hours and minutes.
C30_Witness ==
    /\ Succeeded("get_idle_time")
    /\ env.seconds >= 3600
    /\ Len(Value.formatted) = 2
    /\ Value.formatted[1].unit = "h"

\* C28: for every tool that exists both in the unified server and in a
\* per-sensor server, both implementations return the same outcome for the
\* same arguments and the same collaborator answers.
C28_UnifiedMatchesPerSensor ==
    (outcome.kind # "None" /\ Registered)
        => \A other \in ServersOf(call.name) :
               call_tool(other, call.name, call.args, env).outcome = outcome

\* C27: once started, a server process keeps serving until the transport is
\* closed: main does not return, and the service does not stop, while the
\* stdio transport is open, so a request received after initialization is
\* not left without a service to answer it.
C27_ServesUntilTransportClosed ==
    (process.service # "none" /\ process.transport = "open")
        => /\ process.pc # "returned"
           /\ process.service = "running"

\* the collaborator operations the scan of the call in the state issued
ScanTrace ==
    IF call.server = "SensorsServer"
    THEN SensorsServer_scan_loop(env.list, 1, NoScan).trace
    ELSE BluetoothServer_scan_loop(env.list, 1, NoScan).trace
Scanned == Called("scan_ble_devices") /\ invoked /\ env.manager = "ok" /\ env.adapters = "ok"
At(op, i) == {p \in 1..Len(ScanTrace) : ScanTrace[p] = Ev(op, i)}
Before(op1, op2, i) == \A p \in At(op1, i), q \in At(op2, i) : p < q

\* C26: in scan_ble_devices the steps of an adapter occur in the order
\* start_scan, 3-second wait, stop_scan, read peripherals; the wait is
\* entered only after start_scan succeeded; adapters are scanned one after
\* another; and when the call returns, with Success or Failure, every scan
\* that was started has had stop_scan issued.
C26_ScanStepsInOrder ==
    Scanned
        => /\ \A i \in 1..Len(env.list) :
                  /\ Before("start_scan", "sleep", i)
                  /\ Before("sleep", "stop_scan", i)
                  /\ Before("stop_scan", "peripherals", i)
                  /\ \A op \in {"start_scan", "sleep", "stop_scan", "peripherals"} :
                         Cardinality(At(op, i)) <= 1
                  /\ At("sleep", i) # {}
                         => env.list[i].start = "ok" /\ At("start_scan", i) # {}
                  /\ At("peripherals", i) # {} => At("stop_scan", i) # {}
                  /\ (At("start_scan", i) # {} /\ env.list[i].start = "ok")
                         => At("stop_scan", i) # {}
           /\ \A p, q \in 1..Len(ScanTrace) :
                  p < q => ScanTrace[p].adapter <= ScanTrace[q].adapter
           /\ outcome.kind \in {"Success", "Failure"}

\* C26 witness: two adapters scanned one after the other, the second of
\* which fails to list its peripherals after its scan was stopped.
C26_Witness ==
    /\ Scanned
    /\ Len(env.list) = 2
    /\ outcome.kind = "Failure"
    /\ At("stop_scan", 1) # {}
    /\ At("stop_scan", 2) # {}

Waiting == {t \in 1..Len(runtime.tasks) : runtime.tasks[t].pc \in {"thread_sleep", "await"}}
Submitted == {t \in 1..Len(runtime.tasks) : runtime.tasks[t].pc = "submitted"}

\* C21: a call that is waiting (on a network request, on the CPU-measurement
\* sleep, on the Bluetooth scan window) does not block other calls: while
\* any set of calls is waiting, another submitted call can still start.
C21_WaitingDoesNotBlock ==
    (Waiting # {} /\ Submitted # {}) => FreeWorker

====
